---------------------------- MODULE Spec2Model ----------------------------
(***************************************************************************)
(* Model of the flag colour extractor of scripts/load-all-data.js          *)
(* (parseColor, findClosestColor, applyBlueException,                      *)
(* extractColorsFromSvg and the batch main) and of the data loader of the  *)
(* same file (runScript, runParserGroup and its main).                     *)
(*                                                                         *)
(* Strings are sequences of one-character strings.  A number is an         *)
(* integer; the value Huge stands for a parsed integer of at least         *)
(* OverflowDigits decimal digits, whose square exceeds the largest IEEE    *)
(* double, and Infinity for the double of that name.                       *)
(***************************************************************************)
EXTENDS Integers, Sequences, FiniteSets, TLC

VARIABLES
  colorStr,     \* one colour string of the loop of lines 448-456
  rgb,          \* parseColor's result for colorStr
  normalized,   \* findClosestColor's result for rgb
  svgContent,   \* the text of one document
  extracted,    \* extractColorsFromSvg's result for svgContent
  colorsIn,     \* the array applyBlueException is called with
  bluesIn,      \* the raw blue-ish triples it is called with
  colorsOut,    \* the array applyBlueException returned
  flagsDir,     \* CONFIG.flagsDir: file name -> [readable, text]
  svgFiles,     \* main's sorted list of .svg file names
  fileIndex,    \* the position of main's for loop in svgFiles
  results,      \* main's results: flag identifier -> record
  stats,        \* main's stats: processed, colorCounts
  outputJson,   \* CONFIG.outputJson: whether written, and its content
  printed,      \* the statistics main printed
  args,         \* the flags of process.argv the data loader looks for
  phase,        \* the phase of the data loader whose group runs (1..4)
  parserIndex,  \* the position of runParserGroup's loop in the group
  children,     \* the scripts whose child process has not closed
  launched,     \* the scripts spawn was called for, in order
  exits,        \* the codes of the close events handled, in order
  errorMessage, \* what the data loader's catch printed
  exitCode,     \* the exit code of the data loader, once it has one
  pc            \* the position of the run

classifyVars == <<colorStr, rgb, normalized>>

extractVars == <<svgContent, extracted, colorsIn, bluesIn, colorsOut>>

batchVars == <<flagsDir, svgFiles, fileIndex, results, stats, outputJson, printed>>

loaderVars ==
  <<args, phase, parserIndex, children, launched, exits, errorMessage, exitCode>>

vars == <<colorStr, rgb, normalized, svgContent, extracted, colorsIn, bluesIn,
          colorsOut, flagsDir, svgFiles, fileIndex, results, stats, outputJson,
          printed, args, phase, parserIndex, children, launched, exits,
          errorMessage, exitCode, pc>>

(***************************************************************************)
(* Characters                                                              *)
(***************************************************************************)
WhiteSpace == {" ", "\t", "\n"}

Digits == <<"0","1","2","3","4","5","6","7","8","9">>

HexDigits == Digits \o <<"a","b","c","d","e","f">>

\* The least element of a non-empty set of integers.
Least(S) == CHOOSE x \in S : \A y \in S : x <= y

\* The greatest element of a non-empty set of integers.
Greatest(S) == CHOOSE x \in S : \A y \in S : x >= y

\* indexOf from position i: the first index (1-based) of x, 0 if none.
IndexOf(seq, x, i) ==
  LET hits == {j \in i..Len(seq) : seq[j] = x}
  IN IF hits = {} THEN 0 ELSE Least(hits)

IsDigit(c) == IndexOf(Digits, c, 1) > 0

DigitVal(c) == IndexOf(Digits, c, 1) - 1

\* String.prototype.toLowerCase on one character (ASCII letters).
ToLowerChar(c) ==
  CASE c = "A" -> "a" [] c = "B" -> "b" [] c = "C" -> "c" [] c = "D" -> "d"
    [] c = "E" -> "e" [] c = "F" -> "f" [] c = "G" -> "g" [] c = "H" -> "h"
    [] c = "I" -> "i" [] c = "J" -> "j" [] c = "K" -> "k" [] c = "L" -> "l"
    [] c = "M" -> "m" [] c = "N" -> "n" [] c = "O" -> "o" [] c = "P" -> "p"
    [] c = "Q" -> "q" [] c = "R" -> "r" [] c = "S" -> "s" [] c = "T" -> "t"
    [] c = "U" -> "u" [] c = "V" -> "v" [] c = "W" -> "w" [] c = "X" -> "x"
    [] c = "Y" -> "y" [] c = "Z" -> "z" [] OTHER -> c

toLowerCase(s) == [i \in 1..Len(s) |-> ToLowerChar(s[i])]

\* parseInt(_, 16) accepts digits in either case.
IsHexDigit(c) == IndexOf(HexDigits, ToLowerChar(c), 1) > 0

HexVal(c) == IndexOf(HexDigits, ToLowerChar(c), 1) - 1

\* String.prototype.trim
trim(s) ==
  LET inner == {j \in 1..Len(s) : s[j] \notin WhiteSpace}
  IN IF inner = {} THEN <<>> ELSE SubSeq(s, Least(inner), Greatest(inner))

\* String.prototype.startsWith
startsWith(s, p) == Len(s) >= Len(p) /\ SubSeq(s, 1, Len(p)) = p

\* String.prototype.substring(a, b) with 0-based a <= b, clipped to the string.
substring(s, a, b) ==
  LET lo == IF a > Len(s) THEN Len(s) ELSE a
      hi == IF b > Len(s) THEN Len(s) ELSE b
  IN SubSeq(s, lo + 1, hi)

(***************************************************************************)
(* Numbers                                                                 *)
(***************************************************************************)
\* null, as a colour
Null == [null |-> TRUE]

\* NaN, the result of a parseInt that finds no digit
NaN == 0 - 1000000

\* A parsed decimal integer too large for its square to be a finite double.
Huge == 1000000000

Infinity == 2147483647

\* A decimal literal of this many significant digits is at least 10^155, and
\* (10^155)^2 is above Number.MAX_VALUE (1.797e308).
OverflowDigits == 156


(***************************************************************************)
(* COLOR DEFINITIONS                                                       *)
(***************************************************************************)
\* Object.entries(ACCEPTED_COLORS), in insertion order.
ACCEPTED_COLORS ==
  << [name |-> "black",      r |-> 0,   g |-> 0,   b |-> 0],
     [name |-> "white",      r |-> 255, g |-> 255, b |-> 255],
     [name |-> "grey",       r |-> 128, g |-> 128, b |-> 128],
     [name |-> "pink",       r |-> 255, g |-> 105, b |-> 180],
     [name |-> "red",        r |-> 200, g |-> 30,  b |-> 30],
     [name |-> "orange",     r |-> 255, g |-> 140, b |-> 0],
     [name |-> "yellow",     r |-> 255, g |-> 215, b |-> 0],
     [name |-> "green",      r |-> 0,   g |-> 128, b |-> 0],
     [name |-> "blue",       r |-> 0,   g |-> 50,  b |-> 160],
     [name |-> "light blue", r |-> 100, g |-> 180, b |-> 230],
     [name |-> "purple",     r |-> 128, g |-> 0,   b |-> 128],
     [name |-> "brown",      r |-> 139, g |-> 90,  b |-> 43] >>

\* Object.keys(ACCEPTED_COLORS)
colorOrder == [i \in 1..Len(ACCEPTED_COLORS) |-> ACCEPTED_COLORS[i].name]

NAMED_COLORS ==
  << [name |-> <<"b","l","a","c","k">>, rgb |-> [r |-> 0, g |-> 0, b |-> 0]],
     [name |-> <<"w","h","i","t","e">>, rgb |-> [r |-> 255, g |-> 255, b |-> 255]],
     [name |-> <<"r","e","d">>, rgb |-> [r |-> 255, g |-> 0, b |-> 0]],
     [name |-> <<"g","r","e","e","n">>, rgb |-> [r |-> 0, g |-> 128, b |-> 0]],
     [name |-> <<"b","l","u","e">>, rgb |-> [r |-> 0, g |-> 0, b |-> 255]],
     [name |-> <<"y","e","l","l","o","w">>, rgb |-> [r |-> 255, g |-> 255, b |-> 0]],
     [name |-> <<"o","r","a","n","g","e">>, rgb |-> [r |-> 255, g |-> 165, b |-> 0]],
     [name |-> <<"p","u","r","p","l","e">>, rgb |-> [r |-> 128, g |-> 0, b |-> 128]],
     [name |-> <<"p","i","n","k">>, rgb |-> [r |-> 255, g |-> 192, b |-> 203]],
     [name |-> <<"b","r","o","w","n">>, rgb |-> [r |-> 165, g |-> 42, b |-> 42]],
     [name |-> <<"g","o","l","d">>, rgb |-> [r |-> 255, g |-> 215, b |-> 0]],
     [name |-> <<"s","i","l","v","e","r">>, rgb |-> [r |-> 192, g |-> 192, b |-> 192]],
     [name |-> <<"g","r","a","y">>, rgb |-> [r |-> 128, g |-> 128, b |-> 128]],
     [name |-> <<"g","r","e","y">>, rgb |-> [r |-> 128, g |-> 128, b |-> 128]],
     [name |-> <<"n","a","v","y">>, rgb |-> [r |-> 0, g |-> 0, b |-> 128]],
     [name |-> <<"m","a","r","o","o","n">>, rgb |-> [r |-> 128, g |-> 0, b |-> 0]],
     [name |-> <<"o","l","i","v","e">>, rgb |-> [r |-> 128, g |-> 128, b |-> 0]],
     [name |-> <<"t","e","a","l">>, rgb |-> [r |-> 0, g |-> 128, b |-> 128]],
     [name |-> <<"a","q","u","a">>, rgb |-> [r |-> 0, g |-> 255, b |-> 255]],
     [name |-> <<"c","y","a","n">>, rgb |-> [r |-> 0, g |-> 255, b |-> 255]],
     [name |-> <<"l","i","m","e">>, rgb |-> [r |-> 0, g |-> 255, b |-> 0]],
     [name |-> <<"f","u","c","h","s","i","a">>, rgb |-> [r |-> 255, g |-> 0, b |-> 255]],
     [name |-> <<"m","a","g","e","n","t","a">>, rgb |-> [r |-> 255, g |-> 0, b |-> 255]],
     [name |-> <<"c","r","i","m","s","o","n">>, rgb |-> [r |-> 220, g |-> 20, b |-> 60]],
     [name |-> <<"d","a","r","k","r","e","d">>, rgb |-> [r |-> 139, g |-> 0, b |-> 0]],
     [name |-> <<"d","a","r","k","g","r","e","e","n">>, rgb |-> [r |-> 0, g |-> 100, b |-> 0]],
     [name |-> <<"d","a","r","k","b","l","u","e">>, rgb |-> [r |-> 0, g |-> 0, b |-> 139]],
     [name |-> <<"l","i","g","h","t","b","l","u","e">>, rgb |-> [r |-> 173, g |-> 216, b |-> 230]],
     [name |-> <<"s","k","y","b","l","u","e">>, rgb |-> [r |-> 135, g |-> 206, b |-> 235]],
     [name |-> <<"r","o","y","a","l","b","l","u","e">>, rgb |-> [r |-> 65, g |-> 105, b |-> 225]],
     [name |-> <<"f","o","r","e","s","t","g","r","e","e","n">>, rgb |-> [r |-> 34, g |-> 139, b |-> 34]],
     [name |-> <<"s","e","a","g","r","e","e","n">>, rgb |-> [r |-> 46, g |-> 139, b |-> 87]],
     [name |-> <<"t","u","r","q","u","o","i","s","e">>, rgb |-> [r |-> 64, g |-> 224, b |-> 208]],
     [name |-> <<"c","o","r","a","l">>, rgb |-> [r |-> 255, g |-> 127, b |-> 80]],
     [name |-> <<"s","a","l","m","o","n">>, rgb |-> [r |-> 250, g |-> 128, b |-> 114]],
     [name |-> <<"k","h","a","k","i">>, rgb |-> [r |-> 240, g |-> 230, b |-> 140]],
     [name |-> <<"t","a","n">>, rgb |-> [r |-> 210, g |-> 180, b |-> 140]],
     [name |-> <<"s","i","e","n","n","a">>, rgb |-> [r |-> 160, g |-> 82, b |-> 45]],
     [name |-> <<"c","h","o","c","o","l","a","t","e">>, rgb |-> [r |-> 210, g |-> 105, b |-> 30]],
     [name |-> <<"s","a","d","d","l","e","b","r","o","w","n">>, rgb |-> [r |-> 139, g |-> 69, b |-> 19]],
     [name |-> <<"p","e","r","u">>, rgb |-> [r |-> 205, g |-> 133, b |-> 63]],
     [name |-> <<"w","h","e","a","t">>, rgb |-> [r |-> 245, g |-> 222, b |-> 179]],
     [name |-> <<"b","e","i","g","e">>, rgb |-> [r |-> 245, g |-> 245, b |-> 220]],
     [name |-> <<"i","v","o","r","y">>, rgb |-> [r |-> 255, g |-> 255, b |-> 240]],
     [name |-> <<"s","n","o","w">>, rgb |-> [r |-> 255, g |-> 250, b |-> 250]],
     [name |-> <<"n","o","n","e">>, rgb |-> Null],
     [name |-> <<"t","r","a","n","s","p","a","r","e","n","t">>, rgb |-> Null] >>

RECURSIVE NamedLookup(_, _)
\* NAMED_COLORS[colorStr]: the index of the entry, 0 when it is undefined.
NamedLookup(s, i) ==
  IF i > Len(NAMED_COLORS) THEN 0
  ELSE IF NAMED_COLORS[i].name = s THEN i
  ELSE NamedLookup(s, i + 1)

(***************************************************************************)
(* COLOR PARSING UTILITIES                                                 *)
(***************************************************************************)
\* parseInt(s, 16) for a string of at most two characters: leading white
\* space and a sign are skipped, "0x" is a prefix, and the digits up to the
\* first character that is none are the value; NaN when there is no digit.
ParseInt16(s) ==
  IF Len(s) = 0 THEN NaN
  ELSE IF Len(s) = 1 THEN (IF IsHexDigit(s[1]) THEN HexVal(s[1]) ELSE NaN)
  ELSE IF s[1] = "0" /\ ToLowerChar(s[2]) = "x" THEN NaN
  ELSE IF IsHexDigit(s[1])
       THEN (IF IsHexDigit(s[2]) THEN 16 * HexVal(s[1]) + HexVal(s[2])
             ELSE HexVal(s[1]))
  ELSE IF s[1] \in WhiteSpace \/ s[1] = "+"
       THEN (IF IsHexDigit(s[2]) THEN HexVal(s[2]) ELSE NaN)
  ELSE IF s[1] = "-"
       THEN (IF IsHexDigit(s[2]) THEN 0 - HexVal(s[2]) ELSE NaN)
  ELSE NaN

\* hex.replace('#', ''): the first '#' is removed.
RemoveFirstHash(s) ==
  LET i == IndexOf(s, "#", 1)
  IN IF i = 0 THEN s ELSE SubSeq(s, 1, i - 1) \o SubSeq(s, i + 1, Len(s))

\* if (hex.length === 3): each digit doubled.
DoubleIfThree(hex) ==
  IF Len(hex) = 3
  THEN <<hex[1], hex[1], hex[2], hex[2], hex[3], hex[3]>>
  ELSE hex

\* The four-digit form left as it is.
DoubleIfFourSkipped(hex) == hex

\* if (hex.length === 4): the first three digits, doubled; the alpha digit goes.
DoubleIfFour(hex) ==
  IF Len(hex) = 4
  THEN <<hex[1], hex[1], hex[2], hex[2], hex[3], hex[3]>>
  ELSE hex

\* if (hex.length === 8) hex = hex.substring(0, 6);
DropAlpha(hex) == IF Len(hex) = 8 THEN substring(hex, 0, 6) ELSE hex

\* The three parseInt(..., 16) of the normalised text.
HexChannels(hex) ==
  [r |-> ParseInt16(substring(hex, 0, 2)),
   g |-> ParseInt16(substring(hex, 2, 4)),
   b |-> ParseInt16(substring(hex, 4, 6))]

\* if (isNaN(r) || isNaN(g) || isNaN(b)) return null;
NullIfNaN(c) == IF c.r = NaN \/ c.g = NaN \/ c.b = NaN THEN Null ELSE c

parseHex(hexIn) ==
  NullIfNaN(HexChannels(DropAlpha(DoubleIfFour(DoubleIfThree(RemoveFirstHash(hexIn))))))

\* The position after the longest run, from position i, of characters in class.
SkipWhile(s, i, class) ==
  IF i > Len(s) THEN i
  ELSE CHOOSE j \in i..(Len(s) + 1) :
         /\ j > Len(s) \/ s[j] \notin class
         /\ \A k \in i..(j - 1) : s[k] \in class

\* \s* from position i: the position after the white space.
SkipSpace(s, i) == SkipWhile(s, i, WhiteSpace)

\* \d* from position i: the position after the digits.
SkipDigits(s, i) == SkipWhile(s, i, {Digits[d] : d \in 1..Len(Digits)})

\* A run of digits without its leading zeros (its last digit is kept).
StripZeros(ds) ==
  LET j == SkipWhile(ds, 1, {"0"})
  IN IF j > Len(ds) THEN SubSeq(ds, Len(ds), Len(ds)) ELSE SubSeq(ds, j, Len(ds))

RECURSIVE DecValue(_)
DecValue(ds) ==
  IF ds = <<>> THEN 0
  ELSE 10 * DecValue(SubSeq(ds, 1, Len(ds) - 1)) + DigitVal(ds[Len(ds)])

\* parseInt(ds, 10) of a run of decimal digits.
ParseInt10(ds) ==
  IF Len(StripZeros(ds)) >= OverflowDigits THEN Huge
  ELSE DecValue(StripZeros(ds))

\* One (\d+) group followed by \s*: [ok, from, to, next].
DigitGroup(s, i) ==
  LET e == SkipDigits(s, i)
  IN [ok |-> e > i, from |-> i, to |-> e - 1, next |-> SkipSpace(s, e)]

\* One literal character at position i.
At(s, i, c) == i <= Len(s) /\ s[i] = c

NoRgbMatch == [ok |-> FALSE, m1 |-> <<>>, m2 |-> <<>>, m3 |-> <<>>]

\* The three digit groups g1, g2, g3 and the commas between them.
RgbGroups(s, g1, g2, g3) ==
  IF /\ g1.ok /\ At(s, g1.next, ",")
     /\ g2.ok /\ At(s, g2.next, ",")
     /\ g3.ok
  THEN [ok |-> TRUE,
        m1 |-> SubSeq(s, g1.from, g1.to),
        m2 |-> SubSeq(s, g2.from, g2.to),
        m3 |-> SubSeq(s, g3.from, g3.to)]
  ELSE NoRgbMatch

RgbThird(s, g1, g2) ==
  RgbGroups(s, g1, g2, DigitGroup(s, SkipSpace(s, g2.next + 1)))

RgbSecond(s, g1) == RgbThird(s, g1, DigitGroup(s, SkipSpace(s, g1.next + 1)))

\* \( at position p, then the groups.
RgbParen(s, p) ==
  IF At(s, p, "(") THEN RgbSecond(s, DigitGroup(s, SkipSpace(s, p + 1)))
  ELSE NoRgbMatch

\* /rgba?\s*\(\s*(\d+)\s*,\s*(\d+)\s*,\s*(\d+)/i anchored at position i;
\* l is s in lower case.  Every quantifier is followed by a character outside
\* its class, so the greedy match is the only one.
RgbName(s, l, i) ==
  IF At(l, i, "r") /\ At(l, i + 1, "g") /\ At(l, i + 2, "b")
  THEN RgbParen(s, SkipSpace(s, IF At(l, i + 3, "a") THEN i + 4 ELSE i + 3))
  ELSE NoRgbMatch

RgbMatchAt(s, i) == RgbName(s, toLowerCase(s), i)

RgbLeftmost(s, starts) ==
  IF starts = {} THEN NoRgbMatch ELSE RgbMatchAt(s, Least(starts))

\* str.match: the match at the leftmost position at which the pattern matches.
RgbSearch(s) == RgbLeftmost(s, {i \in 1..Len(s) : RgbMatchAt(s, i).ok})

\* The three parseInt(..., 10) of the groups of a match.
RgbChannels(match) ==
  IF ~match.ok THEN Null
  ELSE [r |-> ParseInt10(match.m1),
        g |-> ParseInt10(match.m2),
        b |-> ParseInt10(match.m3)]

parseRgb(str) == RgbChannels(RgbSearch(str))

SkipKeywords ==
  { <<"n","o","n","e">>,
    <<"t","r","a","n","s","p","a","r","e","n","t">>,
    <<"i","n","h","e","r","i","t">>,
    <<"c","u","r","r","e","n","t","c","o","l","o","r">> }

\* The rgb pattern tried on every text that holds "rgb", wherever it is.
NamedOrParsedRgbAnywhere(s, n) ==
  IF n # 0 THEN NAMED_COLORS[n].rgb
  ELSE IF startsWith(s, <<"#">>) THEN parseHex(s)
  ELSE IF \E i \in 1..(Len(s) - 2) : SubSeq(s, i, i + 2) = <<"r","g","b">>
       THEN parseRgb(s)
  ELSE Null

\* NAMED_COLORS[s], absent when n = 0.
NamedOrParsed(s, n) ==
  IF n # 0 THEN NAMED_COLORS[n].rgb
  ELSE IF startsWith(s, <<"#">>) THEN parseHex(s)
  ELSE IF startsWith(s, <<"r","g","b">>) THEN parseRgb(s)
  ELSE IF startsWith(s, <<"u","r","l","(">>) THEN Null
  ELSE Null

\* parseColor from the trimmed, lower-cased text on.
ParseLower(s) ==
  IF s \in SkipKeywords THEN Null ELSE NamedOrParsed(s, NamedLookup(s, 1))

\* parseColor without the trim of line 295.
parseColorUntrimmed(colorStrIn) ==
  IF colorStrIn = <<>> THEN Null ELSE ParseLower(toLowerCase(colorStrIn))

parseColor(colorStrIn) ==
  IF colorStrIn = <<>> THEN Null ELSE ParseLower(toLowerCase(trim(colorStrIn)))

(***************************************************************************)
(* COLOR MATCHING                                                          *)
(***************************************************************************)
\* c1.x - c2.x, c2 a palette anchor
ChannelDiff(a, b) == IF a = Huge THEN Huge ELSE a - b

\* d * d in double arithmetic
Square(d) == IF d = Huge THEN Infinity ELSE d * d

\* The value compared is dr*dr + dg*dg + db*db.  Math.sqrt is strictly
\* increasing on the integers below 2^53 that this sum takes (two of them
\* differ by at least 1, their roots by more than 1e-3, far above the spacing
\* of doubles near 442), and sqrt(Infinity) = Infinity, so the root and the
\* sum compare alike.
colorDistance(c1, c2) ==
  LET dr == ChannelDiff(c1.r, c2.r)
      dg == ChannelDiff(c1.g, c2.g)
      db == ChannelDiff(c1.b, c2.b)
  IN IF Square(dr) = Infinity \/ Square(dg) = Infinity \/ Square(db) = Infinity
     THEN Infinity
     ELSE Square(dr) + Square(dg) + Square(db)

RECURSIVE ClosestLoop(_, _, _, _)
\* The for loop of findClosestColor from entry i on.
ClosestLoop(c, i, closest, minDist) ==
  IF i > Len(ACCEPTED_COLORS) THEN closest
  ELSE LET dist == colorDistance(c, ACCEPTED_COLORS[i])
       IN IF dist < minDist
          THEN ClosestLoop(c, i + 1, ACCEPTED_COLORS[i].name, dist)
          ELSE ClosestLoop(c, i + 1, closest, minDist)

RECURSIVE ClosestLoopLastWins(_, _, _, _)
\* The loop with "dist <= minDist": a later entry at equal distance wins.
ClosestLoopLastWins(c, i, closest, minDist) ==
  IF i > Len(ACCEPTED_COLORS) THEN closest
  ELSE LET dist == colorDistance(c, ACCEPTED_COLORS[i])
       IN IF dist <= minDist
          THEN ClosestLoopLastWins(c, i + 1, ACCEPTED_COLORS[i].name, dist)
          ELSE ClosestLoopLastWins(c, i + 1, closest, minDist)

findClosestColorLastWins(c) == ClosestLoopLastWins(c, 1, "null", Infinity)

\* The loop started at the second entry.
findClosestColorSkipFirst(c) == ClosestLoop(c, 2, "null", Infinity)

findClosestColor(c) == ClosestLoop(c, 1, "null", Infinity)


(***************************************************************************)
(* Text patterns of extractColorsFromSvg                                   *)
(***************************************************************************)
Letters ==
  {"a","b","c","d","e","f","g","h","i","j","k","l","m",
   "n","o","p","q","r","s","t","u","v","w","x","y","z"}

\* \w
IsWordChar(c) == IsDigit(c) \/ c = "_" \/ ToLowerChar(c) \in Letters

\* The literal p at position i of s.
MatchesAt(s, i, p) ==
  /\ i >= 1
  /\ i + Len(p) - 1 <= Len(s)
  /\ \A k \in 1..Len(p) : s[i + k - 1] = p[k]

\* The lower-case literal p at position i of s, under the i flag.
MatchesAtCI(s, i, p) ==
  /\ i >= 1
  /\ i + Len(p) - 1 <= Len(s)
  /\ \A k \in 1..Len(p) : ToLowerChar(s[i + k - 1]) = p[k]

\* \b at position j, after a word character.
WordBoundaryAfter(s, j) == j > Len(s) \/ ~IsWordChar(s[j])

\* String.prototype.includes
includes(s, p) == \E i \in 1..Len(s) : MatchesAt(s, i, p)

\* The first position from i on at which p matches under the i flag, 0 if none.
FindCI(s, i, p) ==
  LET hits == {j \in i..Len(s) : MatchesAtCI(s, j, p)}
  IN IF hits = {} THEN 0 ELSE Least(hits)

Quotes == {"\"", "'"}

\* The characters [^"';\s>] excludes.
StopChars == Quotes \cup {";", ">"} \cup WhiteSpace

\* The position of the first character from i on that is in stop (Len+1 if none).
SkipUntil(s, i, stop) ==
  IF i > Len(s) THEN i
  ELSE CHOOSE j \in i..(Len(s) + 1) :
         /\ j > Len(s) \/ s[j] \in stop
         /\ \A k \in i..(j - 1) : s[k] \notin stop

\* /word\s*[=:]\s*["']?([^"';\s>]+)/i anchored at position i.  A quote that
\* is not followed by a value character leaves no match, with or without the
\* optional quote consumed.
PropMatchAt(s, i, word) ==
  LET j == SkipSpace(s, i + Len(word))
      k == SkipSpace(s, j + 1)
      q == IF k <= Len(s) /\ s[k] \in Quotes THEN k + 1 ELSE k
      e == SkipUntil(s, q, StopChars)
  IN IF /\ MatchesAtCI(s, i, word)
        /\ j <= Len(s) /\ s[j] \in {"=", ":"}
        /\ e > q
     THEN [ok |-> TRUE, value |-> SubSeq(s, q, e - 1), next |-> e]
     ELSE [ok |-> FALSE, value |-> <<>>, next |-> i + 1]

RECURSIVE MatchAllProp(_, _, _)
RECURSIVE PropFrom(_, _, _)
RECURSIVE PropRest(_, _, _)
\* The match m, then the matches after it.
PropRest(s, word, m) == <<m.value>> \o MatchAllProp(s, m.next, word)

\* The matches from the leftmost of the start positions on.
PropFrom(s, word, starts) ==
  IF starts = {} THEN <<>> ELSE PropRest(s, word, PropMatchAt(s, Least(starts), word))

\* svgContent.matchAll(/word\s*[=:]\s*["']?([^"';\s>]+)/gi): the captures, in order.
MatchAllProp(s, i, word) == PropFrom(s, word, {j \in i..Len(s) : PropMatchAt(s, j, word).ok})

\* /style\s*=\s*["']([^"']+)/i anchored at position i.
StyleMatchAt(s, i) ==
  LET j == SkipSpace(s, i + 5)
      k == SkipSpace(s, j + 1)
      e == SkipUntil(s, k + 1, Quotes)
  IN IF /\ MatchesAtCI(s, i, <<"s","t","y","l","e">>)
        /\ j <= Len(s) /\ s[j] = "="
        /\ k <= Len(s) /\ s[k] \in Quotes
        /\ e > k + 1
     THEN [ok |-> TRUE, value |-> SubSeq(s, k + 1, e - 1), next |-> e]
     ELSE [ok |-> FALSE, value |-> <<>>, next |-> i + 1]

RECURSIVE MatchAllStyle(_, _)
RECURSIVE StyleFrom(_, _)
RECURSIVE StyleRest(_, _)
StyleRest(s, m) == <<m.value>> \o MatchAllStyle(s, m.next)

StyleFrom(s, starts) ==
  IF starts = {} THEN <<>> ELSE StyleRest(s, StyleMatchAt(s, Least(starts)))

\* svgContent.matchAll(/style\s*=\s*["']([^"']+)/gi): the captures, in order.
MatchAllStyle(s, i) == StyleFrom(s, {j \in i..Len(s) : StyleMatchAt(s, j).ok})

\* /prop\s*:\s*([^;]+)/i anchored at position i of a style text.  When no
\* value character follows the white space, the group takes the white space.
DeclMatchAt(style, i, prop) ==
  LET j == SkipSpace(style, i + Len(prop))
      k == SkipSpace(style, j + 1)
      e == SkipUntil(style, j + 1, {";"})
  IN IF /\ MatchesAtCI(style, i, prop)
        /\ j <= Len(style) /\ style[j] = ":"
        /\ e > j + 1
     THEN [ok |-> TRUE,
           value |-> IF e > k THEN SubSeq(style, k, e - 1)
                     ELSE SubSeq(style, j + 1, e - 1)]
     ELSE [ok |-> FALSE, value |-> <<>>]

DeclLeftmost(style, prop, starts) ==
  IF starts = {} THEN [ok |-> FALSE, value |-> <<>>]
  ELSE DeclMatchAt(style, Least(starts), prop)

\* style.match(/prop\s*:\s*([^;]+)/i): the leftmost match.
DeclSearch(style, prop) ==
  DeclLeftmost(style, prop, {i \in 1..Len(style) : DeclMatchAt(style, i, prop).ok})

\* /<name\b[^>]*>[\s\S]*?<\/name>/i anchored at position i: the position
\* after the match, 0 when there is none.
ContainerMatchEnd(s, i, name) ==
  LET open  == <<"<">> \o name
      gt    == IndexOf(s, ">", i + Len(open))
      close == IF gt = 0 THEN 0
               ELSE FindCI(s, gt + 1, <<"<", "/">> \o name \o <<">">>)
  IN IF /\ MatchesAtCI(s, i, open)
        /\ WordBoundaryAfter(s, i + Len(open))
        /\ gt > 0 /\ close > 0
     THEN close + Len(name) + 3
     ELSE 0

RECURSIVE ReplaceContainer(_, _, _)
RECURSIVE ReplaceFrom(_, _, _, _)
RECURSIVE ReplaceAt(_, _, _, _)
\* The text before the match at position first, then the rest after the match.
ReplaceAt(s, i, name, first) ==
  SubSeq(s, i, first - 1)
    \o ReplaceContainer(s, ContainerMatchEnd(s, first, name), name)

ReplaceFrom(s, i, name, starts) ==
  IF starts = {} THEN SubSeq(s, i, Len(s)) ELSE ReplaceAt(s, i, name, Least(starts))

\* s.replace(/<name\b[^>]*>[\s\S]*?<\/name>/gi, '') from position i on.
ReplaceContainer(s, i, name) ==
  ReplaceFrom(s, i, name, {j \in i..Len(s) : ContainerMatchEnd(s, j, name) > 0})

\* /<tag\b[^>]*\bfill\s*=/i.test(s)
HasTagWithFill(s, tag) ==
  LET open == <<"<">> \o tag
  IN \E i \in 1..Len(s) :
       /\ MatchesAtCI(s, i, open)
       /\ WordBoundaryAfter(s, i + Len(open))
       /\ \E p \in (i + Len(open))..Len(s) :
            /\ \A x \in (i + Len(open))..(p - 1) : s[x] # ">"
            /\ ~IsWordChar(s[p - 1])
            /\ MatchesAtCI(s, p, <<"f","i","l","l">>)
            /\ LET j == SkipSpace(s, p + 4) IN j <= Len(s) /\ s[j] = "="

ShapeNames ==
  << <<"p","a","t","h">>, <<"r","e","c","t">>, <<"c","i","r","c","l","e">>,
     <<"p","o","l","y","g","o","n">>, <<"e","l","l","i","p","s","e">>,
     <<"p","o","l","y","l","i","n","e">> >>

\* /<(path|rect|circle|polygon|ellipse|polyline)\b([^>]*)>/i anchored at i.
ShapeMatchAt(s, i) ==
  LET names == {n \in 1..Len(ShapeNames) :
                  /\ MatchesAtCI(s, i + 1, ShapeNames[n])
                  /\ WordBoundaryAfter(s, i + 1 + Len(ShapeNames[n]))}
      n  == CHOOSE x \in names : \A y \in names : x <= y
      a  == i + 1 + Len(ShapeNames[n])
      gt == IndexOf(s, ">", a)
  IN IF MatchesAt(s, i, <<"<">>) /\ names # {} /\ gt > 0
     THEN [ok |-> TRUE, attrs |-> SubSeq(s, a, gt - 1), next |-> gt + 1]
     ELSE [ok |-> FALSE, attrs |-> <<>>, next |-> i + 1]

\* const hasFill = attrs.includes('fill=') || attrs.includes('fill:');
HasFill(attrs) ==
  includes(attrs, <<"f","i","l","l","=">>) \/ includes(attrs, <<"f","i","l","l",":">>)

\* const hasStroke = attrs.includes('stroke=') || attrs.includes('stroke:');
HasStroke(attrs) ==
  includes(attrs, <<"s","t","r","o","k","e","=">>)
    \/ includes(attrs, <<"s","t","r","o","k","e",":">>)

RECURSIVE ShapeLoop(_, _, _)
RECURSIVE ShapeFrom(_, _, _)
RECURSIVE ShapeBody(_, _, _)
\* The loop's body for the shape match m.
ShapeBody(s, hasInheritableFill, m) ==
  IF ~HasFill(m.attrs) /\ ~HasStroke(m.attrs) /\ ~hasInheritableFill THEN TRUE
  ELSE ShapeLoop(s, m.next, hasInheritableFill)

ShapeFrom(s, hasInheritableFill, starts) ==
  IF starts = {} THEN FALSE
  ELSE ShapeBody(s, hasInheritableFill, ShapeMatchAt(s, Least(starts)))

\* The for loop over shapeElements: TRUE when it adds 'black' (and breaks).
ShapeLoop(s, i, hasInheritableFill) ==
  ShapeFrom(s, hasInheritableFill, {j \in i..Len(s) : ShapeMatchAt(s, j).ok})

(***************************************************************************)
(* IEEE doubles of getLightness                                            *)
(***************************************************************************)
\* A natural number as its digits in base 4096, least significant first,
\* without leading zero digits; zero is the empty sequence.
LimbBits == 12

LimbBase == 2 ^ LimbBits

\* The digit of weight LimbBase^(i-1).
Limb(a, i) == IF i <= Len(a) THEN a[i] ELSE 0

\* a without its leading zero digits.
BigNorm(a) ==
  IF \A i \in 1..Len(a) : a[i] = 0 THEN <<>>
  ELSE SubSeq(a, 1, Greatest({i \in 1..Len(a) : a[i] # 0}))

RECURSIVE AddFrom(_, _, _, _)
\* The digits from position i on of a + b + carry * LimbBase^(i-1).
AddFrom(a, b, i, carry) ==
  IF i > Len(a) /\ i > Len(b) THEN (IF carry = 0 THEN <<>> ELSE <<carry>>)
  ELSE <<(Limb(a, i) + Limb(b, i) + carry) % LimbBase>>
         \o AddFrom(a, b, i + 1, (Limb(a, i) + Limb(b, i) + carry) \div LimbBase)

BigAdd(a, b) == AddFrom(a, b, 1, 0)

RECURSIVE SubFrom(_, _, _, _)
\* The digits from position i on of a - b, for a >= b.
SubFrom(a, b, i, borrow) ==
  IF i > Len(a) THEN <<>>
  ELSE <<(Limb(a, i) - Limb(b, i) - borrow + LimbBase) % LimbBase>>
         \o SubFrom(a, b, i + 1,
                    IF Limb(a, i) - Limb(b, i) - borrow < 0 THEN 1 ELSE 0)

BigSub(a, b) == BigNorm(SubFrom(a, b, 1, 0))

RECURSIVE MulFrom(_, _, _, _)
\* The digits from position i on of a * k, for k < LimbBase.
MulFrom(a, k, i, carry) ==
  IF i > Len(a) THEN (IF carry = 0 THEN <<>> ELSE <<carry>>)
  ELSE <<(a[i] * k + carry) % LimbBase>>
         \o MulFrom(a, k, i + 1, (a[i] * k + carry) \div LimbBase)

BigMulSmall(a, k) == BigNorm(MulFrom(a, k, 1, 0))

RECURSIVE DivFrom(_, _, _, _)
\* The digits up to position i of the quotient of a by k, for k < LimbBase.
DivFrom(a, k, i, rem) ==
  IF i = 0 THEN <<>>
  ELSE DivFrom(a, k, i - 1, (rem * LimbBase + a[i]) % k)
         \o <<(rem * LimbBase + a[i]) \div k>>

BigDivSmall(a, k) == BigNorm(DivFrom(a, k, Len(a), 0))

\* a < b
BigLess(a, b) ==
  \/ Len(a) < Len(b)
  \/ /\ Len(a) = Len(b)
     /\ \E i \in 1..Len(a) :
          a[i] < b[i] /\ \A j \in (i + 1)..Len(a) : a[j] = b[j]

\* a * 2^n
BigShl(a, n) ==
  IF a = <<>> THEN <<>>
  ELSE [i \in 1..(n \div LimbBits) |-> 0] \o BigMulSmall(a, 2 ^ (n % LimbBits))

\* The integer part of a / 2^n.
BigShr(a, n) ==
  BigDivSmall(SubSeq(a, (n \div LimbBits) + 1, Len(a)), 2 ^ (n % LimbBits))

\* The number of binary digits of a.
BitLen(a) ==
  IF a = <<>> THEN 0
  ELSE LimbBits * (Len(a) - 1)
         + Least({n \in 1..LimbBits : a[Len(a)] < 2 ^ n})

\* The binary digit of weight 2^i.
BigBit(a, i) == (Limb(a, (i \div LimbBits) + 1) \div (2 ^ (i % LimbBits))) % 2

\* Round to nearest, ties to even: q is the integer part of a / 2^s and low
\* the rest; sticky tells that a stands for a value slightly above a.
RoundedUp(q, low, half, sticky) ==
  BigLess(half, low) \/ (low = half /\ (sticky \/ BigBit(q, 0) = 1))

RoundParts(a, s, sticky, q) ==
  BigShl(IF RoundedUp(q, BigSub(a, BigShl(q, s)), BigShl(<<1>>, s - 1), sticky)
         THEN BigAdd(q, <<1>>) ELSE q,
         s)

\* a rounded to a multiple of 2^s.
RoundAt(a, s, sticky) == RoundParts(a, s, sticky, BigShr(a, s))

\* Doubles carry 53 binary digits.
MantissaBits == 53

\* a rounded to the nearest number with at most 53 significant binary digits.
RoundToDouble(a, sticky) ==
  IF BitLen(a) <= MantissaBits THEN a ELSE RoundAt(a, BitLen(a) - MantissaBits, sticky)

\* Long division runs over the digits of the dividend in base 64, two to a
\* digit in base 4096.
DigitBase == 2 ^ (LimbBits \div 2)

\* The base-64 digit of weight 64^j of n.
Digit64(n, j) == (Limb(n, (j \div 2) + 1) \div (DigitBase ^ (j % 2))) % DigitBase

\* n as a number of one digit.
BigOfDigit(n) == IF n = 0 THEN <<>> ELSE <<n>>

\* The greatest digit k with k * d <= rem, for rem < 64 * d.
QuotientDigit(rem, d) ==
  Greatest({k \in 0..(DigitBase - 1) : ~BigLess(rem, BigMulSmall(d, k))})

\* The quotient and the rest once the digit k has been found for rem64.
DivDigit(d, quot, rem64, k) ==
  [q |-> BigAdd(BigMulSmall(quot, DigitBase), BigOfDigit(k)),
   rem |-> BigSub(rem64, BigMulSmall(d, k))]

\* One step of long division: the rest so far, times 64, plus the next digit.
DivNext(d, quot, rem64) == DivDigit(d, quot, rem64, QuotientDigit(rem64, d))

\* A zero rest and a zero digit give the quotient digit 0.
DivApply(d, before, digit) ==
  IF before.rem = <<>> /\ digit = 0
  THEN [q |-> BigMulSmall(before.q, DigitBase), rem |-> <<>>]
  ELSE DivNext(d, before.q,
               BigAdd(BigMulSmall(before.rem, DigitBase), BigOfDigit(digit)))

RECURSIVE DivStep(_, _, _)
\* The quotient and the rest of n / d over the base-64 digits of n of weight
\* 64^j and above.
DivStep(n, d, j) ==
  IF j >= 2 * Len(n) THEN [q |-> <<>>, rem |-> <<>>]
  ELSE DivApply(d, DivStep(n, d, j + 1), Digit64(n, j))

\* The quotient n / d rounded to a double.
QuotientToDouble(division) ==
  RoundToDouble(division.q, division.rem # <<>>)

BigDivide(n, d) == QuotientToDouble(DivStep(n, d, 0))

\* The doubles 0.299, 0.587, 0.114 and 2.55: the first three in units of
\* 2^-56 are these numbers times 4, 16 and 1; 2.55 is Double255 / 2^50.
Double299 == <<393, 1540, 229, 557, 19>>

Double587 == <<2097, 2752, 2588, 1605, 9>>

Double114 == <<1737, 3047, 2719, 753, 29>>

Double255 == <<819, 819, 819, 819, 10>>

\* The double product of a coefficient and a channel, in units of 2^-56.
ChannelTerm(coefficient, scale, channel) ==
  RoundToDouble(BigMulSmall(BigMulSmall(coefficient, scale), channel), FALSE)

\* 0.299 * rgb.r + 0.587 * rgb.g + 0.114 * rgb.b in doubles, units of 2^-56.
WeightedSum(c) ==
  RoundToDouble(
    BigAdd(RoundToDouble(BigAdd(ChannelTerm(Double299, 4, c.r),
                                ChannelTerm(Double587, 16, c.g)), FALSE),
           ChannelTerm(Double114, 1, c.b)),
    FALSE)

\* The double getLightness returns, in units of 2^-60, for channels below
\* LimbBase: the sum, in units of 2^-56, over 2.55 = Double255 / 2^50.
DoubleLightness(c) == BigDivide(BigShl(WeightedSum(c), 54), Double255)

(***************************************************************************)
(* Blue exception                                                          *)
(***************************************************************************)
\* getLightness in units of 1/2550: (0.299 r + 0.587 g + 0.114 b) / 2.55 is
\* this integer divided by 2550.  The code's doubles can decide otherwise
\* than these exact numbers only when a lightness or a difference is exactly
\* the threshold; SpreadExceeds and LightestExceeds compute them there.
getLightness(c) == 299 * c.r + 587 * c.g + 114 * c.b

LightnessUnit == 2550

isBlueish(c) == c.b > c.r /\ c.b > c.g /\ c.b > 50

\* Array.prototype.includes
Contains(seq, x) == \E i \in 1..Len(seq) : seq[i] = x

\* The least and the greatest lightness of rawBlues: the first and the last
\* element of bluesWithLightness once sorted.
Darkest(rawBlues) ==
  CHOOSE l \in {getLightness(rawBlues[i]) : i \in 1..Len(rawBlues)} :
    \A i \in 1..Len(rawBlues) : l <= getLightness(rawBlues[i])

Lightest(rawBlues) ==
  CHOOSE l \in {getLightness(rawBlues[i]) : i \in 1..Len(rawBlues)} :
    \A i \in 1..Len(rawBlues) : l >= getLightness(rawBlues[i])

\* The doubles of the lightness of rawBlues, in units of 2^-60.
DoubleLightnesses(rawBlues) ==
  {DoubleLightness(rawBlues[i]) : i \in 1..Len(rawBlues)}

\* The greatest and the least of a set of numbers in digits.
BigGreatest(S) == CHOOSE l \in S : \A m \in S : ~BigLess(l, m)

BigLeast(S) == CHOOSE l \in S : \A m \in S : ~BigLess(m, l)

\* lightest.lightness - darkest.lightness in doubles, from the lightness of
\* the last and of the first element of the sorted bluesWithLightness.
DoubleSpread(lightnesses) ==
  RoundToDouble(BigSub(BigGreatest(lightnesses), BigLeast(lightnesses)), FALSE)

\* "lightnessDiff > 20".  A lightness is a multiple of 1/2550 and its double
\* is within 2^-40 of it, so the doubles decide as the exact numbers do
\* unless the exact difference is 20 itself; then the doubles are computed.
SpreadExceeds(rawBlues) ==
  IF Lightest(rawBlues) - Darkest(rawBlues) # 20 * LightnessUnit
  THEN Lightest(rawBlues) - Darkest(rawBlues) > 20 * LightnessUnit
  ELSE BigLess(BigShl(<<20>>, 60), DoubleSpread(DoubleLightnesses(rawBlues)))

\* "lightest.lightness > 45", decided in the same way.
LightestExceeds(rawBlues) ==
  IF Lightest(rawBlues) # 45 * LightnessUnit
  THEN Lightest(rawBlues) > 45 * LightnessUnit
  ELSE BigLess(BigShl(<<45>>, 60), BigGreatest(DoubleLightnesses(rawBlues)))

\* The push of 'lightblue', the key NAMED_COLORS has, for 'light blue'.
applyBlueExceptionNoSpace(colors, rawBlues) ==
  IF ~Contains(colors, "blue") \/ Len(rawBlues) < 2 THEN colors
  ELSE IF /\ SpreadExceeds(rawBlues)
          /\ ~Contains(colors, "light blue")
          /\ LightestExceeds(rawBlues)
       THEN Append(colors, "lightblue")
       ELSE colors

\* The push without the "!colors.includes('light blue')" test.
applyBlueExceptionNoIncludesTest(colors, rawBlues) ==
  IF ~Contains(colors, "blue") \/ Len(rawBlues) < 2 THEN colors
  ELSE IF SpreadExceeds(rawBlues) /\ LightestExceeds(rawBlues)
       THEN Append(colors, "light blue")
       ELSE colors

\* The colours returned as they came.
applyBlueExceptionNeverAdds(colors, rawBlues) == colors

applyBlueException(colors, rawBlues) ==
  IF ~Contains(colors, "blue") \/ Len(rawBlues) < 2 THEN colors
  ELSE IF /\ SpreadExceeds(rawBlues)
          /\ ~Contains(colors, "light blue")
          /\ LightestExceeds(rawBlues)
       THEN Append(colors, "light blue")
       ELSE colors

(***************************************************************************)
(* SVG PARSING                                                             *)
(***************************************************************************)
\* Set.prototype.add on a Set kept in insertion order.
SetAdd(set, x) == IF Contains(set, x) THEN set ELSE Append(set, x)

RECURSIVE AddAll(_, _)
AddAll(set, xs) ==
  IF xs = <<>> THEN set ELSE AddAll(SetAdd(set, Head(xs)), Tail(xs))

\* if (fillStyle) colorStrings.add(fillStyle[1].trim());
TrimmedIfFound(match) == IF match.ok THEN <<trim(match.value)>> ELSE <<>>

RECURSIVE StyleColorStrings(_)
\* The fill and stroke declarations of each style match, trimmed.
StyleColorStrings(styles) ==
  IF styles = <<>> THEN <<>>
  ELSE TrimmedIfFound(DeclSearch(Head(styles), <<"f","i","l","l">>))
         \o TrimmedIfFound(DeclSearch(Head(styles), <<"s","t","r","o","k","e">>))
         \o StyleColorStrings(Tail(styles))

\* colorStrings, in insertion order (lines 420-445).
ColorStrings(svg) ==
  AddAll(AddAll(AddAll(AddAll(<<>>,
    MatchAllProp(svg, 1, <<"f","i","l","l">>)),
    MatchAllProp(svg, 1, <<"s","t","r","o","k","e">>)),
    MatchAllProp(svg, 1, <<"s","t","o","p","-","c","o","l","o","r">>)),
    StyleColorStrings(MatchAllStyle(svg, 1)))

\* if (rgb) { rawColors.push(rgb); ... }
\* Every token pushed, one without a colour as black.
PushAlways(c) == <<IF c # Null THEN c ELSE [r |-> 0, g |-> 0, b |-> 0]>>

PushIfParsed(c) == IF c # Null THEN <<c>> ELSE <<>>

RECURSIVE RawColors(_)
\* rawColors: the parsed colour of each colour string that has one (lines 448-451).
RawColors(colorStrings) ==
  IF colorStrings = <<>> THEN <<>>
  ELSE PushIfParsed(parseColor(Head(colorStrings))) \o RawColors(Tail(colorStrings))

\* if (normalized) colors.add(normalized);
AddIfNormalized(set, name) == IF name # "null" THEN SetAdd(set, name) ELSE set

RECURSIVE Classified(_, _)
\* colors after the loop of lines 448-457, from the Set given.
Classified(set, rawColors) ==
  IF rawColors = <<>> THEN set
  ELSE Classified(AddIfNormalized(set, findClosestColor(Head(rawColors))),
                  Tail(rawColors))

\* svgClean (lines 461-466)
SvgClean(svg) ==
  ReplaceContainer(
    ReplaceContainer(
      ReplaceContainer(
        ReplaceContainer(
          ReplaceContainer(svg, 1, <<"d","e","f","s">>),
          1, <<"c","l","i","p","p","a","t","h">>),
        1, <<"m","a","s","k">>),
      1, <<"s","y","m","b","o","l">>),
    1, <<"p","a","t","t","e","r","n">>)

\* The test left out: no element is taken to declare a fill.
HasInheritableFillIgnored(svgClean) == FALSE

\* const hasInheritableFill = /<g\b[^>]*\bfill\s*=/i.test(svgClean) || ...
HasInheritableFill(svgClean) ==
  HasTagWithFill(svgClean, <<"g">>) \/ HasTagWithFill(svgClean, <<"s","v","g">>)

\* The loop over the shape elements of svgClean.
BlackInClean(svgClean) == ShapeLoop(svgClean, 1, HasInheritableFill(svgClean))

\* Whether the loop over shapeElements adds 'black' (lines 471-489).
AddsDefaultBlack(svg) == BlackInClean(SvgClean(svg))

RECURSIVE RawBlues(_)
\* rawColors.filter(isBlueish)
RawBlues(rawColors) ==
  IF rawColors = <<>> THEN <<>>
  ELSE (IF isBlueish(Head(rawColors)) THEN <<Head(rawColors)>> ELSE <<>>)
         \o RawBlues(Tail(rawColors))

\* colorOrder.indexOf(a), 0-based, -1 when absent
OrderIndex(a) == IndexOf(colorOrder, a, 1) - 1

RECURSIVE InsertSorted(_, _)
\* x put into a sorted array after the elements that do not compare greater.
InsertSorted(sorted, x) ==
  IF sorted = <<>> THEN <<x>>
  ELSE IF OrderIndex(Head(sorted)) - OrderIndex(x) > 0 THEN <<x>> \o sorted
  ELSE <<Head(sorted)>> \o InsertSorted(Tail(sorted), x)

RECURSIVE SortLoop(_, _)
SortLoop(sorted, rest) ==
  IF rest = <<>> THEN sorted
  ELSE SortLoop(InsertSorted(sorted, Head(rest)), Tail(rest))

\* The array left as it is.
SortByColorOrderSkipped(colorArray) == colorArray

\* colorArray.sort((a, b) => colorOrder.indexOf(a) - colorOrder.indexOf(b)):
\* a stable sort under the comparator.
SortByColorOrder(colorArray) == SortLoop(<<>>, colorArray)

\* The inferred black left out.
WithDefaultBlackDropped(classified, addsBlack) == classified

\* if (!hasFill && !hasStroke && !hasInheritableFill) colors.add('black');
WithDefaultBlack(classified, addsBlack) ==
  IF addsBlack THEN SetAdd(classified, "black") ELSE classified

\* The array handed to the sort: the Set's elements, then the blue exception.
ColorArrayOf(svg, rawColors) ==
  applyBlueException(
    WithDefaultBlack(Classified(<<>>, rawColors), AddsDefaultBlack(svg)),
    RawBlues(rawColors))

ColorArray(svg) == ColorArrayOf(svg, RawColors(ColorStrings(svg)))

\* The returned object, from rawColors on (lines 492-507).
ResultOf(svg, rawColors) ==
  [colors        |-> SortByColorOrder(ColorArrayOf(svg, rawColors)),
   rawColorCount |-> Len(rawColors),
   rawBlueCount  |-> Len(RawBlues(rawColors))]

extractColorsFromSvg(svg) == ResultOf(svg, RawColors(ColorStrings(svg)))

\* No result yet.
NoResult == [colors |-> <<>>, rawColorCount |-> 0 - 1, rawBlueCount |-> 0 - 1]

(***************************************************************************)
(* Documents                                                               *)
(***************************************************************************)
\* <rect fill="#001f6e"/>
DarkBlueRect ==
  <<"<","r","e","c","t"," ","f","i","l","l","=","\"","#","0","0","1","f",
    "6","e","\"","/",">">>

\* <rect fill="#7fd4ff"/>
SkyBlueRect ==
  <<"<","r","e","c","t"," ","f","i","l","l","=","\"","#","7","f","d","4",
    "f","f","\"","/",">">>

\* <path fill="#c8c8ff"/>
PaleBluePath ==
  <<"<","p","a","t","h"," ","f","i","l","l","=","\"","#","c","8","c","8",
    "f","f","\"","/",">">>

\* <defs>
DefsOpen ==
  <<"<","d","e","f","s",">">>

\* </defs>
DefsClose ==
  <<"<","/","d","e","f","s",">">>

\* <path d="M0"/>
BarePath ==
  <<"<","p","a","t","h"," ","d","=","\"","M","0","\"","/",">">>

\* <g fill="none">
GroupFillNone ==
  <<"<","g"," ","f","i","l","l","=","\"","n","o","n","e","\"",">">>

\* <circle stroke="#16305f" style="fill:purple"/>
StyledCircle ==
  <<"<","c","i","r","c","l","e"," ","s","t","r","o","k","e","=","\"","#",
    "1","6","3","0","5","f","\""," ","s","t","y","l","e","=","\"","f","i",
    "l","l",":","p","u","r","p","l","e","\"","/",">">>

\* The markup fragments documents are made of.
Fragments ==
  {DarkBlueRect, SkyBlueRect, PaleBluePath, DefsOpen,
   DefsClose, BarePath, GroupFillNone, StyledCircle}

\* The most fragments in a document.
MaxParts == 3

RECURSIVE Concat(_)
Concat(parts) == IF parts = <<>> THEN <<>> ELSE Head(parts) \o Concat(Tail(parts))

\* <rect fill="#16305f"/>
NavyRect ==
  <<"<","r","e","c","t"," ","f","i","l","l","=","\"","#","1","6","3","0",
    "5","f","\"","/",">">>

\* <rect fill="#1a3870"/>
IndigoRect ==
  <<"<","r","e","c","t"," ","f","i","l","l","=","\"","#","1","a","3","8",
    "7","0","\"","/",">">>

\* <rect fill="#023fe8"/>
RoyalBlueRect ==
  <<"<","r","e","c","t"," ","f","i","l","l","=","\"","#","0","2","3","f",
    "e","8","\"","/",">">>

\* <rect fill="#00a1b4"/>
TealBlueRect ==
  <<"<","r","e","c","t"," ","f","i","l","l","=","\"","#","0","0","a","1",
    "b","4","\"","/",">">>

\* Shapes whose fills are blue-ish and classify as "blue".  The lightness of
\* the first two differs by about 3; that of the last two by 20 exactly
\* (64027 and 115027 in units of 1/2550).
BlueFragments == {NavyRect, IndigoRect, RoyalBlueRect, TealBlueRect}

\* The most shapes in a document of blue shapes.
MaxBlues == 2

\* The documents of blue shapes only.
BlueDocuments ==
  UNION {{Concat(parts) : parts \in [1..n -> BlueFragments]} : n \in 1..MaxBlues}

\* </g>
GroupClose ==
  <<"<","/","g",">">>

\* <svg fill="#001f6e">
RootFill ==
  <<"<","s","v","g"," ","f","i","l","l","=","\"","#","0","0","1","f","6",
    "e","\"",">">>

\* <rect fill="url(#g)"/>
GradientRect ==
  <<"<","r","e","c","t"," ","f","i","l","l","=","\"","u","r","l","(","#",
    "g",")","\"","/",">">>

\* <rect fill="bogus" stroke="Red"/>
BogusRect ==
  <<"<","r","e","c","t"," ","f","i","l","l","=","\"","b","o","g","u","s",
    "\""," ","s","t","r","o","k","e","=","\"","R","e","d","\"","/",">">>

\* Groups, a root with a fill, and shapes whose colour tokens do not parse.
GroupFragments ==
  {GroupFillNone, GroupClose, RootFill, BarePath, GradientRect, BogusRect}

\* The most fragments in a document of groups.
MaxGroupParts == 3

GroupDocuments ==
  UNION {{Concat(parts) : parts \in [1..n -> GroupFragments]} : n \in 1..MaxGroupParts}

\* The most fragments in a document of definitions blocks.
MaxNested == 5

\* Definitions blocks, nested or not, closed or not, around a bare shape.
NestedDocuments ==
  UNION {{Concat(parts) : parts \in [1..n -> {DefsOpen, DefsClose, BarePath}]} :
           n \in 1..MaxNested}

\* The documents: every sequence of at most MaxParts fragments, as one text,
\* and the documents of blue shapes, of groups and of definitions blocks.
Documents ==
  UNION {{Concat(parts) : parts \in [1..n -> Fragments]} : n \in 0..MaxParts}
    \cup BlueDocuments \cup GroupDocuments \cup NestedDocuments

(***************************************************************************)
(* MAIN: the batch over the flag files                                     *)
(***************************************************************************)
\* String.prototype.toUpperCase on one character (ASCII letters).
ToUpperChar(c) ==
  CASE c = "a" -> "A" [] c = "b" -> "B" [] c = "c" -> "C" [] c = "d" -> "D"
    [] c = "e" -> "E" [] c = "f" -> "F" [] c = "g" -> "G" [] c = "h" -> "H"
    [] c = "i" -> "I" [] c = "j" -> "J" [] c = "k" -> "K" [] c = "l" -> "L"
    [] c = "m" -> "M" [] c = "n" -> "N" [] c = "o" -> "O" [] c = "p" -> "P"
    [] c = "q" -> "Q" [] c = "r" -> "R" [] c = "s" -> "S" [] c = "t" -> "T"
    [] c = "u" -> "U" [] c = "v" -> "V" [] c = "w" -> "W" [] c = "x" -> "X"
    [] c = "y" -> "Y" [] c = "z" -> "Z" [] OTHER -> c

toUpperCase(s) == [i \in 1..Len(s) |-> ToUpperChar(s[i])]

\* String.prototype.endsWith
endsWith(s, p) == Len(s) >= Len(p) /\ SubSeq(s, Len(s) - Len(p) + 1, Len(s)) = p

\* s.replace(p, ''): the first occurrence of p is removed.
RemoveFirst(s, p) ==
  LET hits == {i \in 1..Len(s) : MatchesAt(s, i, p)}
  IN IF hits = {} THEN s
     ELSE SubSeq(s, 1, Least(hits) - 1) \o SubSeq(s, Least(hits) + Len(p), Len(s))

DotSvg == <<".", "s", "v", "g">>

\* const iso = file.replace('.svg', '').toUpperCase();
IsoOf(file) == toUpperCase(RemoveFirst(file, DotSvg))

\* The characters of file names, in the order of their UTF-16 code units.
CodeUnitOrder ==
  <<".", "0","1","2","3","4","5","6","7","8","9",
    "A","B","C","D","E","F","G","H","I","J","K","L","M",
    "N","O","P","Q","R","S","T","U","V","W","X","Y","Z", "_",
    "a","b","c","d","e","f","g","h","i","j","k","l","m",
    "n","o","p","q","r","s","t","u","v","w","x","y","z">>

CodeUnit(c) == IndexOf(CodeUnitOrder, c, 1)

\* a sorts before b under Array.prototype.sort's default comparison.
SortsBefore(a, b) ==
  \E k \in 1..(Len(a) + 1) :
    /\ k <= Len(b)
    /\ \A x \in 1..(k - 1) : a[x] = b[x]
    /\ k > Len(a) \/ CodeUnit(a[k]) < CodeUnit(b[k])

RECURSIVE Sorted(_)
\* The names of a set, sorted.
Sorted(names) ==
  IF names = {} THEN <<>>
  ELSE LET first == CHOOSE n \in names : \A m \in names \ {n} : SortsBefore(n, m)
       IN <<first>> \o Sorted(names \ {first})

\* files.filter(f => f.endsWith('.svg')).sort()
SvgFilesOf(dir) == Sorted({f \in DOMAIN dir : endsWith(f, DotSvg)})

EmptyMap == [x \in {} |-> 0]

\* obj[key] = value
Put(obj, key, value) ==
  [k \in DOMAIN obj \cup {key} |-> IF k = key THEN value ELSE obj[k]]

RECURSIVE CountColors(_, _)
\* for (const color of colors) colorCounts[color] = (colorCounts[color] || 0) + 1;
CountColors(colorCounts, colors) ==
  IF colors = <<>> THEN colorCounts
  ELSE LET color == Head(colors)
           old == IF color \in DOMAIN colorCounts THEN colorCounts[color] ELSE 0
       IN CountColors(Put(colorCounts, color, old + 1), Tail(colors))

NotWritten == [written |-> FALSE, content |-> EmptyMap]

NothingPrinted == [processed |-> 0 - 1, colorCounts |-> EmptyMap]

\* What the data loader's catch has printed when it has not run.
NoMessage == [failed |-> "", how |-> "", code |-> 0]

\* The exit code of a process that has not exited.
NoExitCode == 0 - 1

LoaderIdle ==
  /\ args = {} /\ phase = 0 /\ parserIndex = 0 /\ children = {}
  /\ launched = <<>> /\ exits = <<>> /\ errorMessage = NoMessage
  /\ exitCode = NoExitCode

ClassifyIdle == colorStr = <<>> /\ rgb = Null /\ normalized = "null"

BlueIdle == colorsIn = <<>> /\ bluesIn = <<>> /\ colorsOut = <<>>

ExtractIdle == svgContent = <<>> /\ extracted = NoResult /\ BlueIdle

BatchIdle ==
  /\ flagsDir = EmptyMap
  /\ svgFiles = <<>>
  /\ fileIndex = 0
  /\ results = EmptyMap
  /\ stats = [processed |-> 0, colorCounts |-> EmptyMap]
  /\ outputJson = NotWritten
  /\ printed = NothingPrinted

(***************************************************************************)
(* Classification of one colour token (lines 448-456)                      *)
(***************************************************************************)
Hex2(n) == <<HexDigits[(n \div 16) + 1], HexDigits[(n % 16) + 1]>>

\* The six-digit hex token of a triple.
HexToken(r, g, b) == <<"#">> \o Hex2(r) \o Hex2(g) \o Hex2(b)

\* Channel values of the sampled triples: the palette's anchor channels and
\* the quarter points.
SampleChannels ==
  {0, 30, 43, 50, 64, 90, 100, 105, 128, 139, 140, 160, 180, 192, 200, 215, 230, 255}

DigitRun(c, n) == [i \in 1..n |-> c]

OtherTokens ==
  { <<"r","e","d">>, <<"n","a","v","y">>, <<"n","o","n","e">>,
    <<"u","r","l","(","#","g",")">>,
    <<"r","g","b","(","3","0","0",",","0",",","0",")">>,
    <<"r","g","b","(">> \o DigitRun("9", OverflowDigits) \o <<",","0",",","0",")">> }

\* Hex digits of the short and the alpha forms, in both letter cases.
ShortHexDigits == {"0", "7", "a", "F"}

AlphaChannels == {0, 128, 255}

\* Three- and four-digit hex tokens, and eight-digit ones.
ShortHexTokens ==
  {<<"#", a, b, c>> : a \in ShortHexDigits, b \in ShortHexDigits, c \in ShortHexDigits}
    \cup {<<"#", a, b, c, d>> : a \in ShortHexDigits, b \in ShortHexDigits,
                                c \in ShortHexDigits, d \in ShortHexDigits}
    \cup {HexToken(r, g, b) \o Hex2(a) : r \in AlphaChannels, g \in AlphaChannels,
                                        b \in AlphaChannels, a \in AlphaChannels}

\* The tokens without a colour, in several letter cases and with white space.
SkipTokens ==
  { <<"n","o","n","e">>,
    <<" ","N","o","n","e"," ">>,
    <<"t","r","a","n","s","p","a","r","e","n","t">>,
    <<"T","R","A","N","S","P","A","R","E","N","T","\n">>,
    <<"i","n","h","e","r","i","t">>,
    <<"\t","I","n","h","e","r","i","t">>,
    <<"c","u","r","r","e","n","t","c","o","l","o","r">>,
    <<"c","u","r","r","e","n","t","C","o","l","o","r"," ">>,
    <<"u","r","l","(","#","g","1",")">>,
    <<" ","U","R","L","(","#","g","1",")">>,
    <<"u","r","l","(","#","r","g","b","(","1",",","2",",","3",")",")">>,
    <<"U","r","l","(","r","g","b",")","\t">> }

\* Tokens that begin with '#' and are none of the 3-, 4-, 6- and 8-digit forms.
OddHexTokens ==
  { <<"#">>,
    <<"#","1">>,
    <<"#","1","2">>,
    <<"#","1","2","3","4","5">>,
    <<"#","1","2","3","4","5","6","7">>,
    <<"#","1","2","3","4","5","6","7","8","9">>,
    <<"#","g","g","g">>,
    <<"#","g","g","0","0","0","0">>,
    <<"#","0","g","0","0","0","0">>,
    <<"#","1","g","2","h","3","i">>,
    <<" ","#","A","B","C","D","E"," ">> }

\* Named and rgb()/rgba() colours in several letter cases, with white space.
CasedTokens ==
  { <<" ","R","e","d">>,
    <<"N","A","V","Y","\n">>,
    <<"\t","d","a","r","k","B","l","u","e"," "," ">>,
    <<"R","G","B","(","1","0",",","2","0",",","3","0",")">>,
    <<" ","R","g","b","a","("," ","2","5","5"," ",","," ","0",",","7",",","0",".","5",")"," ">> }

ClassifyTokens ==
  {HexToken(r, g, b) : r \in SampleChannels, g \in SampleChannels, b \in SampleChannels}
    \cup OtherTokens \cup ShortHexTokens \cup SkipTokens \cup OddHexTokens
    \cup CasedTokens

ClassifyInit ==
  /\ colorStr \in ClassifyTokens
  /\ rgb = Null
  /\ normalized = "null"
  /\ ExtractIdle
  /\ BatchIdle
  /\ LoaderIdle
  /\ pc = "parse"

\* const rgb = parseColor(colorStr);
Parse ==
  /\ pc = "parse"
  /\ rgb' = parseColor(colorStr)
  /\ pc' = IF rgb' = Null THEN "skipped" ELSE "classify"
  /\ UNCHANGED <<colorStr, normalized, extractVars, batchVars, loaderVars>>

\* const normalized = findClosestColor(rgb);
Classify ==
  /\ pc = "classify"
  /\ normalized' = findClosestColor(rgb)
  /\ pc' = "classified"
  /\ UNCHANGED <<colorStr, rgb, extractVars, batchVars, loaderVars>>

ClassifyNext == Parse \/ Classify

SpecClassify == ClassifyInit /\ [][ClassifyNext]_vars

(***************************************************************************)
(* Extraction of one document                                              *)
(***************************************************************************)
ExtractInit ==
  /\ svgContent \in Documents
  /\ extracted = NoResult
  /\ BlueIdle
  /\ ClassifyIdle
  /\ LoaderIdle
  /\ BatchIdle
  /\ pc = "extract"

\* const { colors, rawColorCount, rawBlueCount } = extractColorsFromSvg(svgContent);
Extract ==
  /\ pc = "extract"
  /\ extracted' = extractColorsFromSvg(svgContent)
  /\ pc' = "extracted"
  /\ UNCHANGED <<classifyVars, svgContent, colorsIn, bluesIn, colorsOut, batchVars, loaderVars>>

ExtractNext == Extract

SpecExtract == ExtractInit /\ [][ExtractNext]_vars

(***************************************************************************)
(* The blue exception on its own (applyBlueException, lines 378-406)       *)
(***************************************************************************)
\* Blue-ish triples: #001f6e, #023fe8, #00a1b4 and #039fb4 classify as
\* "blue", #7fd4ff as "light blue", #c8c8ff as "white", #000033 as "black".
\* The lightness of #039fb4 is 45 exactly; that of #023fe8 and #00a1b4
\* differs by 20 exactly.
SampleBlues ==
  { [r |-> 0, g |-> 31, b |-> 110],
    [r |-> 2, g |-> 63, b |-> 232],
    [r |-> 0, g |-> 161, b |-> 180],
    [r |-> 3, g |-> 159, b |-> 180],
    [r |-> 127, g |-> 212, b |-> 255],
    [r |-> 200, g |-> 200, b |-> 255],
    [r |-> 0, g |-> 0, b |-> 51] }

\* The most raw blue-ish triples of a call.
MaxRawBlues == 2

BlueLists == UNION {[1..n -> SampleBlues] : n \in 0..MaxRawBlues}

\* The names the colours that are not blue-ish gave, before the blues'.
OtherNames ==
  { <<>>, <<"red">>, <<"blue">>, <<"light blue">>, <<"light blue", "blue">>,
    <<"black", "yellow">> }

\* The call of line 497: the array holds the name of every raw blue.
BlueInit ==
  /\ bluesIn \in BlueLists
  /\ colorsIn \in {Classified(names, bluesIn) : names \in OtherNames}
  /\ colorsOut = <<>>
  /\ svgContent = <<>>
  /\ extracted = NoResult
  /\ ClassifyIdle
  /\ LoaderIdle
  /\ BatchIdle
  /\ pc = "exception"

\* colorArray = applyBlueException(colorArray, rawBlues);
ApplyBlueException ==
  /\ pc = "exception"
  /\ colorsOut' = applyBlueException(colorsIn, bluesIn)
  /\ pc' = "excepted"
  /\ UNCHANGED <<classifyVars, svgContent, extracted, colorsIn, bluesIn, batchVars, loaderVars>>

\* applyBlueException called again, with the array it returned.
ApplyBlueExceptionAgain ==
  /\ pc = "excepted"
  /\ colorsOut' = applyBlueException(colorsOut, bluesIn)
  /\ pc' = "again"
  /\ UNCHANGED <<classifyVars, svgContent, extracted, colorsIn, bluesIn, batchVars, loaderVars>>

BlueNext == ApplyBlueException \/ ApplyBlueExceptionAgain

SpecBlue == BlueInit /\ [][BlueNext]_vars

(***************************************************************************)
(* The batch run (main, lines 514-586)                                     *)
(***************************************************************************)
\* The flag files a directory may hold, and the artifact of an earlier run.
FlagFileNames ==
  { <<"b","r",".","s","v","g">>,
    <<"j","p",".","s","v","g">>,
    <<"u","s",".","s","v","g">>,
    <<"z","a",".","s","v","g">> }

ArtifactName == <<"_","c","o","l","o","r","s",".","j","s","o","n">>

\* The most flag files in the directory.
MaxFiles == 3

\* What a flag file may be: unreadable, or readable with one of these texts.
FileStates ==
  { [readable |-> FALSE, text |-> <<>>],
    [readable |-> TRUE, text |-> <<>>],
    [readable |-> TRUE, text |-> BarePath],
    [readable |-> TRUE, text |-> GroupFillNone \o BarePath],
    [readable |-> TRUE, text |-> DarkBlueRect \o PaleBluePath] }

Directories ==
  UNION { [names \cup other -> FileStates] :
            names \in {n \in SUBSET FlagFileNames : Cardinality(n) <= MaxFiles},
            other \in {{}, {ArtifactName}} }

BatchInit ==
  /\ flagsDir \in Directories
  /\ svgFiles = <<>>
  /\ fileIndex = 0
  /\ results = EmptyMap
  /\ stats = [processed |-> 0, colorCounts |-> EmptyMap]
  /\ outputJson = NotWritten
  /\ printed = NothingPrinted
  /\ ClassifyIdle
  /\ LoaderIdle
  /\ ExtractIdle
  /\ pc = "readdir"

\* const files = await fs.readdir(...); const svgFiles = files.filter(...).sort();
ListFiles ==
  /\ pc = "readdir"
  /\ svgFiles' = SvgFilesOf(flagsDir)
  /\ fileIndex' = 1
  /\ pc' = "loop"
  /\ UNCHANGED <<flagsDir, results, stats, outputJson, printed, classifyVars, extractVars, loaderVars>>

\* The record of a file when the Set of colours is shared by all the calls
\* of extractColorsFromSvg instead of made anew in each: the names found in
\* the file before come along.
ProcessedSharingColors(file, ex) ==
  /\ results' = Put(results, IsoOf(file),
                    [colors |-> IF fileIndex = 1 THEN ex.colors
                                ELSE AddAll(results[IsoOf(svgFiles[fileIndex - 1])].colors,
                                            ex.colors),
                     colorCount |-> Len(ex.colors),
                     rawColorCount |-> ex.rawColorCount])
  /\ stats' = [processed |-> stats.processed + 1,
               colorCounts |-> CountColors(stats.colorCounts, ex.colors)]

\* A loop that leaves out the files in which no colour was found.
ProcessedUnlessEmpty(file, ex) ==
  IF ex.colors = <<>> THEN results' = results /\ stats' = stats
  ELSE /\ results' = Put(results, IsoOf(file),
                         [colors |-> ex.colors,
                          colorCount |-> Len(ex.colors),
                          rawColorCount |-> ex.rawColorCount])
       /\ stats' = [processed |-> stats.processed + 1,
                    colorCounts |-> CountColors(stats.colorCounts, ex.colors)]

RECURSIVE RawCountSum(_, _)
\* The sum of the rawColorCount of the records of keys.
RawCountSum(res, keys) ==
  IF keys = {} THEN 0
  ELSE res[CHOOSE k \in keys : TRUE].rawColorCount
         + RawCountSum(res, keys \ {CHOOSE k \in keys : TRUE})

\* The merge when the array rawColors is shared by all the calls of
\* extractColorsFromSvg and never emptied: its length counts the raw colours
\* of every file so far.
MergedCountingAllRaw(res, file, ex) ==
  Put(res, IsoOf(file),
      [colors |-> ex.colors,
       colorCount |-> Len(ex.colors),
       rawColorCount |-> ex.rawColorCount + RawCountSum(res, DOMAIN res)])

\* The record with the number of raw colours as its colorCount.
MergedRawAsCount(res, file, ex) ==
  Put(res, IsoOf(file),
      [colors |-> ex.colors,
       colorCount |-> ex.rawColorCount,
       rawColorCount |-> ex.rawColorCount])

\* results[iso] = { colors, colorCount: colors.length, rawColorCount };
Merged(res, file, ex) ==
  Put(res, IsoOf(file),
      [colors |-> ex.colors,
       colorCount |-> Len(ex.colors),
       rawColorCount |-> ex.rawColorCount])

\* results[iso] = {...}; stats.processed++; the colour counts (lines 538-546).
Processed(file, ex) ==
  /\ results' = Merged(results, file, ex)
  /\ stats' = [processed |-> stats.processed + 1,
               colorCounts |-> CountColors(stats.colorCounts, ex.colors)]

\* One iteration of the for loop whose readFile succeeds (lines 530-555).
ProcessFile ==
  /\ pc = "loop"
  /\ fileIndex <= Len(svgFiles)
  /\ flagsDir[svgFiles[fileIndex]].readable
  /\ Processed(svgFiles[fileIndex],
               extractColorsFromSvg(flagsDir[svgFiles[fileIndex]].text))
  /\ fileIndex' = fileIndex + 1
  /\ UNCHANGED <<flagsDir, svgFiles, outputJson, printed, classifyVars, extractVars, loaderVars, pc>>

\* An iteration whose readFile rejects: nothing in main catches it, main's
\* promise rejects and main().catch(console.error) logs it (line 586).
ReadFileRejects ==
  /\ pc = "loop"
  /\ fileIndex <= Len(svgFiles)
  /\ ~flagsDir[svgFiles[fileIndex]].readable
  /\ pc' = "rejected"
  /\ UNCHANGED <<batchVars, classifyVars, extractVars, loaderVars>>

\* await fs.writeFile(CONFIG.outputJson, JSON.stringify(results, null, 2));
WriteResults ==
  /\ pc = "loop"
  /\ fileIndex > Len(svgFiles)
  /\ outputJson' = [written |-> TRUE, content |-> results]
  /\ pc' = "statistics"
  /\ UNCHANGED <<flagsDir, svgFiles, fileIndex, results, stats, printed,
                 classifyVars, extractVars, loaderVars>>

\* The statistics report (lines 562-574).
PrintStatistics ==
  /\ pc = "statistics"
  /\ printed' = [processed |-> stats.processed, colorCounts |-> stats.colorCounts]
  /\ pc' = "done"
  /\ UNCHANGED <<flagsDir, svgFiles, fileIndex, results, stats, outputJson,
                 classifyVars, extractVars, loaderVars>>

BatchNext ==
  ListFiles \/ ProcessFile \/ ReadFileRejects \/ WriteResults \/ PrintStatistics

SpecBatch == BatchInit /\ [][BatchNext]_vars

(***************************************************************************)
(* The data loader (lines 26-129)                                          *)
(***************************************************************************)
\* const PARSERS = { wikidata: [...], wikipedia: [...], derived: [...], sync: [...] }
PARSERS ==
  [wikidata |->
     <<[name |-> "Wikidata (base data)", script |-> "parse-wikidata.js"]>>,
   wikipedia |->
     <<[name |-> "Land Borders", script |-> "parse-wikipedia-land-borders.js"],
       [name |-> "Flag Properties", script |-> "parse-wikipedia-flags.js"],
       [name |-> "Island Countries", script |-> "parse-wikipedia-island-countries.js"],
       [name |-> "Coastline Length", script |-> "parse-wikipedia-coastline-length.js"],
       [name |-> "Olympic Medals", script |-> "parse-wikipedia-olympic-medals.js"]>>,
   derived |->
     <<[name |-> "Flag Colors", script |-> "update-flag-colors.js"]>>,
   sync |->
     <<[name |-> "Sync to Web App", script |-> "sync-web-data.js"]>>]

\* The flags main looks for in process.argv.
Flags == {"--wikidata-only", "--wikipedia-only"}

\* The greatest exit code a script ends with.
MaxExitCode == 3

\* The code of the close event of a child ended by a signal (null).
SignalCode == 0 - 2

\* The codes a close event may carry.
CloseCodes == 0..MaxExitCode \cup {SignalCode}

\* The group runParserGroup is called with in each phase of main.
PhaseGroup(p) ==
  CASE p = 1 -> PARSERS.wikidata
    [] p = 2 -> PARSERS.wikipedia
    [] p = 3 -> PARSERS.derived
    [] p = 4 -> PARSERS.sync

\* The phase past the last.
Finished == 5

\* if (!wikipediaOnly) {phase 1}  if (!wikidataOnly) {phases 2 and 3}  phase 4
PhaseRuns(p, a) ==
  CASE p = 1 -> "--wikipedia-only" \notin a
    [] p \in {2, 3} -> "--wikidata-only" \notin a
    [] p = 4 -> TRUE

RECURSIVE NextFrom(_, _, _)
\* Where main's control is at its next runScript from position i of phase
\* p: the loops and the ifs of lines 86-118.
NextFrom(p, i, a) ==
  IF p >= Finished THEN [phase |-> Finished, index |-> 0]
  ELSE IF PhaseRuns(p, a) /\ i <= Len(PhaseGroup(p)) THEN [phase |-> p, index |-> i]
  ELSE NextFrom(p + 1, 1, a)

\* The parser at a position.
ParserAt(pos) == PhaseGroup(pos.phase)[pos.index]

\* A close handler that resolves whatever the code.
CloseAlwaysResolves(code) == "resolve"

\* proc.on('close', (code) => { if (code === 0) resolve(); else reject(...) })
CloseOutcome(code) == IF code = 0 THEN "resolve" ELSE "reject"

\* runScript at pos, after the script closed (or with none, at the start):
\* spawn is called and main awaits the promise.
Spawned(pos, closed) ==
  /\ phase' = pos.phase
  /\ parserIndex' = pos.index
  /\ children' = (children \ closed) \cup {ParserAt(pos).script}
  /\ launched' = Append(launched, ParserAt(pos).script)
  /\ pc' = "awaiting"

\* The end of main's try block: nothing is left to run and the process ends.
AllLoaded(closed) ==
  /\ phase' = Finished
  /\ parserIndex' = 0
  /\ children' = children \ closed
  /\ launched' = launched
  /\ exitCode' = 0
  /\ pc' = "finished"

\* catch (err) { console.error(...); process.exit(1); }
Caught(message, closed) ==
  /\ errorMessage' = message
  /\ exitCode' = 1
  /\ children' = children \ closed
  /\ pc' = "exited"
  /\ UNCHANGED <<phase, parserIndex, launched>>

LoaderInit ==
  /\ args \in SUBSET Flags
  /\ phase = 0 /\ parserIndex = 0 /\ children = {}
  /\ launched = <<>> /\ exits = <<>> /\ errorMessage = NoMessage
  /\ exitCode = NoExitCode
  /\ ClassifyIdle
  /\ ExtractIdle
  /\ BatchIdle
  /\ pc = "main"

\* main up to its first await: the first script of the first phase that runs.
MainStarts ==
  /\ pc = "main"
  /\ Spawned(NextFrom(1, 1, args), {})
  /\ UNCHANGED <<args, exits, errorMessage, exitCode, classifyVars, extractVars,
                 batchVars>>

\* The close event of the child, and what main does when the promise
\* settles: the next script, the end, or the catch.
ScriptCloses ==
  /\ pc = "awaiting"
  /\ \E code \in CloseCodes :
       LET current == ParserAt([phase |-> phase, index |-> parserIndex])
           next == NextFrom(phase, parserIndex + 1, args)
       IN /\ exits' = Append(exits, code)
          /\ IF CloseOutcome(code) = "resolve"
             THEN /\ IF next.phase < Finished
                     THEN Spawned(next, {current.script}) /\ exitCode' = exitCode
                     ELSE AllLoaded({current.script})
                  /\ errorMessage' = errorMessage
             ELSE Caught([failed |-> current.name, how |-> "failed with exit code",
                          code |-> code],
                         {current.script})
  /\ UNCHANGED <<args, classifyVars, extractVars, batchVars>>

\* The error event of the child (it could not be spawned): the promise
\* rejects and main's catch runs.
ScriptFailsToStart ==
  /\ pc = "awaiting"
  /\ Caught([failed |-> ParserAt([phase |-> phase, index |-> parserIndex]).name,
             how |-> "Failed to start", code |-> 0],
            {ParserAt([phase |-> phase, index |-> parserIndex]).script})
  /\ UNCHANGED <<args, exits, classifyVars, extractVars, batchVars>>

LoaderNext == MainStarts \/ ScriptCloses \/ ScriptFailsToStart

SpecLoader == LoaderInit /\ [][LoaderNext]_vars

(***************************************************************************)
(* Claims about findClosestColor                                           *)
(***************************************************************************)
PaletteIndex == 1..Len(ACCEPTED_COLORS)

InByteRange(c) == c # Null /\ c.r \in 0..255 /\ c.g \in 0..255 /\ c.b \in 0..255

\* The squared Euclidean distance of c to the anchor of palette entry i.
SqDist(c, i) ==
  (c.r - ACCEPTED_COLORS[i].r) * (c.r - ACCEPTED_COLORS[i].r)
    + (c.g - ACCEPTED_COLORS[i].g) * (c.g - ACCEPTED_COLORS[i].g)
    + (c.b - ACCEPTED_COLORS[i].b) * (c.b - ACCEPTED_COLORS[i].b)

IsMinimal(c, i) == \A j \in PaletteIndex : SqDist(c, i) <= SqDist(c, j)

\* C8: for a triple with channels in 0..255, findClosestColor returns the
\* first entry, in palette table order, among the entries whose anchor is at
\* minimal Euclidean distance; a later entry at equal distance never wins.
FindClosestIsFirstMinimum ==
  (pc = "classified" /\ InByteRange(rgb)) =>
    \E i \in PaletteIndex :
      /\ normalized = ACCEPTED_COLORS[i].name
      /\ IsMinimal(rgb, i)
      /\ \A j \in PaletteIndex : j < i => SqDist(rgb, j) > SqDist(rgb, i)

\* A classified triple with two anchors at the same, minimal, distance.
FindClosestTieWitness ==
  /\ pc = "classified" /\ InByteRange(rgb)
  /\ \E i, j \in PaletteIndex :
       /\ i < j
       /\ IsMinimal(rgb, i) /\ IsMinimal(rgb, j)
       /\ normalized = ACCEPTED_COLORS[i].name

\* C9: findClosestColor returns one of the canonical names, never null, for
\* every triple parseColor produces.
FindClosestNeverNull ==
  pc = "classified" =>
    \E i \in PaletteIndex : normalized = ACCEPTED_COLORS[i].name

\* C10: classifying the anchor of a palette entry returns that entry's name.
FindClosestFixesAnchors ==
  \A i \in PaletteIndex :
    (/\ pc = "classified"
     /\ rgb = [r |-> ACCEPTED_COLORS[i].r, g |-> ACCEPTED_COLORS[i].g,
               b |-> ACCEPTED_COLORS[i].b])
      => normalized = ACCEPTED_COLORS[i].name

\* The anchor of the last palette entry has been classified.
AnchorClassifiedWitness ==
  /\ pc = "classified"
  /\ rgb = [r |-> 139, g |-> 90, b |-> 43]
  /\ normalized = "brown"

(***************************************************************************)
(* Claims about parseColor                                                 *)
(***************************************************************************)
HexDigitChars ==
  {"0","1","2","3","4","5","6","7","8","9",
   "a","b","c","d","e","f","A","B","C","D","E","F"}

\* s is '#' followed by hex digits only.
IsHexString(s) ==
  /\ Len(s) >= 1 /\ s[1] = "#"
  /\ \A i \in 2..Len(s) : s[i] \in HexDigitChars

\* The six digits a 3-, 4-, 6- or 8-digit form stands for.
ExpandedDigits(s) ==
  IF Len(s) - 1 \in {3, 4} THEN <<s[2], s[2], s[3], s[3], s[4], s[4]>>
  ELSE SubSeq(s, 2, 7)

\* The value of the hex digit c.
HexDigitValue(c) ==
  CASE c = "0" -> 0 [] c = "1" -> 1 [] c = "2" -> 2 [] c = "3" -> 3
    [] c = "4" -> 4 [] c = "5" -> 5 [] c = "6" -> 6 [] c = "7" -> 7
    [] c = "8" -> 8 [] c = "9" -> 9
    [] c \in {"a", "A"} -> 10 [] c \in {"b", "B"} -> 11
    [] c \in {"c", "C"} -> 12 [] c \in {"d", "D"} -> 13
    [] c \in {"e", "E"} -> 14 [] c \in {"f", "F"} -> 15

\* The triple six hex digits denote.
TripleOfDigits(d) ==
  [r |-> 16 * HexDigitValue(d[1]) + HexDigitValue(d[2]),
   g |-> 16 * HexDigitValue(d[3]) + HexDigitValue(d[4]),
   b |-> 16 * HexDigitValue(d[5]) + HexDigitValue(d[6])]

\* C11: for a valid 3-, 4-, 6- or 8-digit hex string, parseColor returns the
\* triple of its expanded six-digit form (each digit of a 3/4-digit form
\* doubled, alpha digits dropped), which is what parsing that form returns.
HexFormsParseAsExpanded ==
  (/\ pc # "parse"
   /\ IsHexString(colorStr)
   /\ Len(colorStr) - 1 \in {3, 4, 6, 8}) =>
    /\ rgb = TripleOfDigits(ExpandedDigits(colorStr))
    /\ rgb = parseColor(<<"#">> \o ExpandedDigits(colorStr))

\* A four-digit form, upper-case digit included, has been parsed.
FourDigitHexWitness ==
  /\ pc = "classify"
  /\ colorStr = <<"#", "F", "7", "a", "0">>
  /\ rgb = [r |-> 255, g |-> 119, b |-> 170]

\* C12: parseColor returns none for none, transparent, inherit, currentcolor
\* and url(...) references, in any letter case and inside white space.
SkipTokensParseToNone ==
  (pc # "parse" /\ colorStr \in SkipTokens) => (rgb = Null /\ pc = "skipped")

\* A url reference in upper case, after white space, has been parsed.
UrlSkippedWitness ==
  /\ pc = "skipped"
  /\ colorStr = <<" ","U","R","L","(","#","g","1",")">>
  /\ rgb = Null

(***************************************************************************)
(* Claims about extractColorsFromSvg                                       *)
(***************************************************************************)
\* The twelve canonical names, in palette order.
CanonicalNames ==
  <<"black", "white", "grey", "pink", "red", "orange", "yellow", "green",
    "blue", "light blue", "purple", "brown">>

CanonicalIndex(name) ==
  CHOOSE i \in 1..Len(CanonicalNames) : CanonicalNames[i] = name

\* The steps of the extraction of svgContent, for the witnesses.
RawOfDocument == RawColors(ColorStrings(svgContent))

ClassifiedOfDocument == Classified(<<>>, RawOfDocument)

\* C1: every element of the colors list extractColorsFromSvg returns is one
\* of the twelve canonical names.
ColorsAreCanonical ==
  pc = "extracted" =>
    \A i \in 1..Len(extracted.colors) :
      \E n \in 1..Len(CanonicalNames) : extracted.colors[i] = CanonicalNames[n]

\* A document with three names, one of them from the blue exception.
ThreeColorsWitness ==
  /\ pc = "extracted"
  /\ Len(extracted.colors) >= 3
  /\ Contains(extracted.colors, "light blue")
  /\ ~Contains(ClassifiedOfDocument, "light blue")

\* C2: "light blue" is in the final colors list only if "blue" is in it too.
LightBlueOnlyWithBlue ==
  pc = "extracted" =>
    (Contains(extracted.colors, "light blue") => Contains(extracted.colors, "blue"))

\* C3: "light blue" is in the final colors list only when the document
\* yielded at least two raw blue-ish triples.
LightBlueNeedsTwoRawBlues ==
  pc = "extracted" =>
    (Contains(extracted.colors, "light blue") => extracted.rawBlueCount >= 2)

\* C5: a colour declared only inside a non-rendering container contributes
\* no name: every name of the colors list is also a name of the document
\* with its non-rendering containers stripped.
ContainerColorsExcluded ==
  pc = "extracted" =>
    \A i \in 1..Len(extracted.colors) :
      Contains(extractColorsFromSvg(SvgClean(svgContent)).colors,
               extracted.colors[i])

\* C6: the final colors list has no duplicates.
ColorsHaveNoDuplicates ==
  pc = "extracted" =>
    \A i, j \in 1..Len(extracted.colors) :
      i # j => extracted.colors[i] # extracted.colors[j]

\* Several raw shades classify to one name, and the blue exception's
\* conditions hold while "light blue" is already classified.
SharedNameWitness ==
  /\ pc = "extracted"
  /\ extracted.rawColorCount > Len(extracted.colors)
  /\ Contains(ClassifiedOfDocument, "blue")
  /\ Contains(ClassifiedOfDocument, "light blue")
  /\ Len(RawBlues(RawOfDocument)) >= 2
  /\ Lightest(RawBlues(RawOfDocument)) - Darkest(RawBlues(RawOfDocument))
       > 20 * LightnessUnit
  /\ Lightest(RawBlues(RawOfDocument)) > 45 * LightnessUnit

\* C7: the final colors list is in palette order: of two names in it, the
\* one earlier in the palette table comes first.
ColorsInPaletteOrder ==
  pc = "extracted" =>
    \A i, j \in 1..Len(extracted.colors) :
      i < j =>
        CanonicalIndex(extracted.colors[i]) <= CanonicalIndex(extracted.colors[j])

\* The blue exception appended "light blue" after a name that follows it in
\* the palette, and the sort moved it.
SortMovesLightBlueWitness ==
  /\ pc = "extracted"
  /\ ~Contains(ClassifiedOfDocument, "light blue")
  /\ Len(extracted.colors) > 0
  /\ ColorArray(svgContent)[Len(ColorArray(svgContent))] = "light blue"
  /\ extracted.colors[Len(extracted.colors)] = "purple"

\* The text p, not empty, occurs in s at position i.
OccursAt(s, i, p) ==
  /\ i + Len(p) - 1 <= Len(s)
  /\ s[i] = p[1]
  /\ SubSeq(s, i, i + Len(p) - 1) = p

Occurs(s, p) == \E i \in 1..Len(s) : OccursAt(s, i, p)

\* The number of definitions blocks open at position i of s.
DefsDepth(s, i) ==
  Cardinality({j \in 1..(i - 1) : OccursAt(s, j, DefsOpen)})
    - Cardinality({j \in 1..(i - 1) : OccursAt(s, j, DefsClose)})

\* Every definitions block of s is closed, and none is closed before it opens.
WellNested(s) ==
  /\ \A i \in 1..Len(s) : OccursAt(s, i, DefsClose) => DefsDepth(s, i + 1) >= 0
  /\ DefsDepth(s, Len(s) + 1) = 0

\* A shape with neither fill nor stroke outside every definitions block.
HasRenderedBareShape(s) ==
  \E i \in 1..Len(s) : OccursAt(s, i, BarePath) /\ DefsDepth(s, i) = 0

\* No fill, stroke, stop-color or style is written anywhere in s.
DeclaresNoColour(s) ==
  /\ ~Occurs(s, <<"f","i","l","l">>)
  /\ ~Occurs(s, <<"s","t","r","o","k","e">>)
  /\ ~Occurs(s, <<"s","t","o","p","-","c","o","l","o","r">>)
  /\ ~Occurs(s, <<"s","t","y","l","e">>)

\* A group or the root element of s declares a fill.
DeclaresInheritableFill(s) ==
  \/ Occurs(s, <<"<","g"," ","f","i","l","l","=">>)
  \/ Occurs(s, <<"<","s","v","g"," ","f","i","l","l","=">>)

BluesOfDocument == RawBlues(RawOfDocument)

\* Some raw colour of the document classifies as "blue".
SomeIsBlue(raw) == \E i \in 1..Len(raw) : findClosestColor(raw[i]) = "blue"

\* The lightness spread of the raw blue-ish triples, in units of 1/2550.
SpreadOf(blues) == IF blues = <<>> THEN 0 ELSE Lightest(blues) - Darkest(blues)

\* The blues spread over more than 20 and the lightest is above 45.
WideAndLight(blues) ==
  SpreadOf(blues) > 20 * LightnessUnit /\ Lightest(blues) > 45 * LightnessUnit

\* Some raw colour is "blue" and the blue-ish ones are wide and light.
BlueWithWideBlues(raw) == SomeIsBlue(raw) /\ WideAndLight(RawBlues(raw))

BlueSpread == SpreadOf(BluesOfDocument)

AllBlue(raw) ==
  /\ raw # <<>>
  /\ \A i \in 1..Len(raw) : isBlueish(raw[i]) /\ findClosestColor(raw[i]) = "blue"

AllDeclarationsBlue == AllBlue(RawOfDocument)

\* C15: when every colour declaration is a blue-ish triple that classifies
\* as "blue" and the lightness spread is not greater than 20, the final
\* colors list holds "blue" and does not hold "light blue".
NarrowBluesStayBlue ==
  (/\ pc = "extracted"
   /\ AllDeclarationsBlue
   /\ BlueSpread <= 20 * LightnessUnit) =>
    /\ Contains(extracted.colors, "blue")
    /\ ~Contains(extracted.colors, "light blue")

(***************************************************************************)
(* Claims about the batch                                                  *)
(***************************************************************************)
SvgNames == {f \in DOMAIN flagsDir : endsWith(f, DotSvg)}

Unreadable == {f \in SvgNames : ~flagsDir[f].readable}

\* C4: when exactly one of the flag files cannot be read, the run completes,
\* the aggregate artifact is written, and it holds the records of all the
\* other files.
BatchSurvivesOneBadFile ==
  (pc \in {"done", "rejected"} /\ Cardinality(Unreadable) = 1) =>
    /\ pc = "done"
    /\ outputJson.written
    /\ DOMAIN outputJson.content = {IsoOf(f) : f \in SvgNames \ Unreadable}

\* The files of the run that have a record.
Recorded == {f \in SvgNames : IsoOf(f) \in DOMAIN results}

FlagFile(a, b) == <<a, b>> \o DotSvg

NoColourText(text) ==
  RawColors(ColorStrings(text)) = <<>> /\ ~AddsDefaultBlack(text)

\* The texts of the flag files that are so.
ColourlessTexts == {t \in {state.text : state \in FileStates} : NoColourText(t)}

\* The record of a file without colours.
EmptyRecord == [colors |-> <<>>, colorCount |-> 0, rawColorCount |-> 0]

\* C17: a file without any parseable colour and without default black is no
\* error: once the loop has passed it, its record is there with an empty
\* colors list, colorCount 0 and rawColorCount 0, and the written artifact
\* holds that record.
ColourlessFileIsRecorded ==
  \A i \in 1..Len(svgFiles) :
    (i < fileIndex /\ flagsDir[svgFiles[i]].text \in ColourlessTexts) =>
      /\ IsoOf(svgFiles[i]) \in DOMAIN results
      /\ results[IsoOf(svgFiles[i])] = EmptyRecord
      /\ outputJson.written =>
           /\ IsoOf(svgFiles[i]) \in DOMAIN outputJson.content
           /\ outputJson.content[IsoOf(svgFiles[i])] = EmptyRecord

\* A file whose only fill is none, in a group, is written with no colours
\* after a file with colours.
ColourlessFileWitness ==
  /\ pc = "done"
  /\ svgFiles = <<FlagFile("b", "r"), FlagFile("j", "p")>>
  /\ flagsDir[FlagFile("b", "r")].text = DarkBlueRect \o PaleBluePath
  /\ flagsDir[FlagFile("j", "p")].text = GroupFillNone \o BarePath
  /\ NoColourText(GroupFillNone \o BarePath)
  /\ outputJson.content[<<"J", "P">>] = EmptyRecord
  /\ outputJson.content[<<"B", "R">>].colorCount = 3

\* What extractColorsFromSvg returns for each text a flag file may have.
ExtractedOf ==
  [t \in {state.text : state \in FileStates} |-> extractColorsFromSvg(t)]

RECURSIVE Aggregate(_, _)
\* The records of the files of order merged one after the other into res.
Aggregate(res, order) ==
  IF order = <<>> THEN res
  ELSE Aggregate(Merged(res, Head(order), ExtractedOf[flagsDir[Head(order)].text]),
                 Tail(order))

\* The orders in which the files of a sequence can be taken.
Orders(files) ==
  {order \in [1..Len(files) -> {files[i] : i \in 1..Len(files)}] :
     \A i \in 1..Len(files) : \A j \in 1..Len(files) :
       order[i] = order[j] => i = j}

\* C18: the flag files have distinct identifiers; each is processed at most
\* once, and when the loop is over the aggregate is what merging the records
\* of the files gives in any order.
AggregateIsOrderFree ==
  /\ pc \in {"loop", "statistics", "done"} =>
       /\ stats.processed = fileIndex - 1
       /\ stats.processed = Cardinality(DOMAIN results)
       /\ stats.processed <= Len(svgFiles)
  /\ pc \in {"statistics", "done"} =>
       \A order \in Orders(svgFiles) : Aggregate(EmptyMap, order) = results

\* Three files, of which two have colours, are written.
ThreeFilesMergedWitness ==
  /\ pc = "done"
  /\ Len(svgFiles) = 3
  /\ Cardinality(Orders(svgFiles)) = 6
  /\ flagsDir[svgFiles[1]].text = DarkBlueRect \o PaleBluePath
  /\ flagsDir[svgFiles[2]].text = <<>>
  /\ flagsDir[svgFiles[3]].text = BarePath
  /\ DOMAIN outputJson.content = {IsoOf(svgFiles[i]) : i \in 1..3}
  /\ stats.processed = 3

(***************************************************************************)
(* Claims about applyBlueException                                         *)
(***************************************************************************)
\* The names of an array.
NamesOf(names) == {names[i] : i \in 1..Len(names)}

\* The four conditions: "blue" is among the names, there are two raw blues
\* at least, their lightness spreads over more than 20 and the lightest is
\* above 45, with the lightness (299 r + 587 g + 114 b) / 2550.
LightBlueIsDue ==
  /\ Contains(colorsIn, "blue")
  /\ Len(bluesIn) >= 2
  /\ Lightest(bluesIn) - Darkest(bluesIn) > 20 * LightnessUnit
  /\ Lightest(bluesIn) > 45 * LightnessUnit

\* C19: applyBlueException returns the names it was given, with
\* "light blue" added exactly when the four conditions hold; otherwise the
\* array is returned as it came, and no other name comes or goes.
LightBlueAddedExactlyWhenDue ==
  pc = "excepted" =>
    /\ NamesOf(colorsOut)
         = NamesOf(colorsIn) \cup (IF LightBlueIsDue THEN {"light blue"} ELSE {})
    /\ ~LightBlueIsDue => colorsOut = colorsIn

\* C20: a second call with the returned array and the same raw blues
\* returns that array again, and an array that holds "light blue" already
\* is returned as it came.
BlueExceptionIsIdempotent ==
  /\ [][pc = "excepted" => colorsOut' = colorsOut]_vars
  /\ [](pc \in {"excepted", "again"} /\ Contains(colorsIn, "light blue")
          => colorsOut = colorsIn)

\* "light blue" was added by the first call and not again by the second.
SecondCallAddsNothingWitness ==
  /\ pc = "again"
  /\ colorsIn = <<"blue">>
  /\ bluesIn = <<[r |-> 0, g |-> 31, b |-> 110], [r |-> 0, g |-> 161, b |-> 180]>>
  /\ colorsOut = <<"blue", "light blue">>

(***************************************************************************)
(* Claims about parseColor                                                 *)
(***************************************************************************)
\* C21: every triple parseColor returns, for a hex, an rgb()/rgba() or a
\* named colour, has each of r, g and b an integer in 0..255.
ParsedChannelsAreBytes ==
  (pc # "parse" /\ rgb # Null) => InByteRange(rgb)

\* The token, trimmed, is '#' and a body that is not 3, 4, 6 or 8 hex digits.
IsMalformedHex(s) ==
  /\ Len(s) >= 1 /\ s[1] = "#"
  /\ ~(IsHexString(s) /\ Len(s) - 1 \in {3, 4, 6, 8})

\* C22: a token that begins with '#' and whose body has another length than
\* 3, 4, 6 or 8 digits, or holds a character that is no hex digit, yields
\* none.
MalformedHexYieldsNone ==
  (pc # "parse" /\ IsMalformedHex(trim(colorStr))) => rgb = Null

\* C23: parseColor gives for every token what it gives for the token trimmed
\* and lower-cased.
ParseIgnoresCaseAndSpace ==
  pc # "parse" => rgb = parseColor(toLowerCase(trim(colorStr)))

\* An rgba() token in mixed case with white space around and inside it.
CasedRgbaWitness ==
  /\ pc = "classified"
  /\ colorStr = <<" ","R","g","b","a","("," ","2","5","5"," ",","," ","0",",","7",",","0",".","5",")"," ">>
  /\ toLowerCase(trim(colorStr)) # colorStr
  /\ rgb = [r |-> 255, g |-> 0, b |-> 7]
  /\ normalized = "red"

(***************************************************************************)
(* Claims about the tokens of a document                                   *)
(***************************************************************************)
\* The places of the colour strings parseColor accepts.
AcceptedAt(tokens) == {i \in 1..Len(tokens) : parseColor(tokens[i]) # Null}

\* The names the accepted colour strings classify as.
AcceptedNames(tokens) ==
  {findClosestColor(parseColor(tokens[i])) : i \in AcceptedAt(tokens)}

\* No colour string occurs twice.
AreDistinct(tokens) ==
  \A i, j \in 1..Len(tokens) : tokens[i] = tokens[j] => i = j

\* The record counts the accepted strings and names nothing else.
OnlyAcceptedCount(tokens, result) ==
  /\ AreDistinct(tokens)
  /\ result.rawColorCount = Cardinality(AcceptedAt(tokens))
  /\ \A n \in 1..Len(result.colors) :
       result.colors[n] \in AcceptedNames(tokens) \cup {"black", "light blue"}

\* C24: a colour token parseColor does not accept is dropped: rawColorCount
\* is the number of distinct declared tokens parseColor accepts, colors
\* holds only names of accepted tokens (and the inferred "black" and
\* "light blue"), and the extraction still returns its record.
UnparseableTokenIsDiscarded ==
  pc = "extracted" =>
    /\ extracted # NoResult
    /\ OnlyAcceptedCount(ColorStrings(svgContent), extracted)

\* A gradient reference and an unknown word beside one colour name.
DiscardedTokensWitness ==
  /\ pc = "extracted"
  /\ svgContent = GradientRect \o BogusRect
  /\ ColorStrings(svgContent) =
       <<<<"u","r","l","(","#","g",")">>, <<"b","o","g","u","s">>, <<"R","e","d">>>>
  /\ extracted = [colors |-> <<"red">>, rawColorCount |-> 1, rawBlueCount |-> 0]

(***************************************************************************)
(* Claims about the inheritable fill                                       *)
(***************************************************************************)
\* No declared colour of the document classifies as "black".
NoneIsBlack(rawColors) == ~Contains(Classified(<<>>, rawColors), "black")

\* C25: when a <g> or the <svg> element of the stripped copy carries a fill
\* attribute, whatever its value and wherever the shapes are, no shape of
\* the document gets the default black: "black" is in colors only when a
\* declared colour classifies as black.
GroupFillSuppressesBlack ==
  (/\ pc = "extracted"
   /\ DeclaresInheritableFill(SvgClean(svgContent))
   /\ NoneIsBlack(RawColors(ColorStrings(svgContent)))) =>
    ~Contains(extracted.colors, "black")

\* A shape with neither fill nor stroke after a closed group of fill "none".
ShapeBesideGroupWitness ==
  /\ pc = "extracted"
  /\ svgContent = GroupFillNone \o GroupClose \o BarePath
  /\ HasRenderedBareShape(svgContent)
  /\ DeclaresInheritableFill(SvgClean(svgContent))
  /\ extracted = [colors |-> <<>>, rawColorCount |-> 0, rawBlueCount |-> 0]

(***************************************************************************)
(* Claims about the non-rendering containers                               *)
(***************************************************************************)
\* Every shape with neither fill nor stroke lies inside a definitions block.
BareShapesOnlyInDefs(s) ==
  /\ Occurs(s, BarePath)
  /\ \A i \in 1..Len(s) : OccursAt(s, i, BarePath) => DefsDepth(s, i) > 0

\* C26: when the shapes with neither fill nor stroke all lie inside a
\* non-rendering container, one nested in another of its kind included,
\* none of them makes "black" a member of colors.
ShapeInContainerNeverBlack ==
  (/\ pc = "extracted"
   /\ WellNested(svgContent)
   /\ BareShapesOnlyInDefs(svgContent)
   /\ NoneIsBlack(RawColors(ColorStrings(svgContent)))) =>
    ~Contains(extracted.colors, "black")

(***************************************************************************)
(* Claims about the order of discovery                                     *)
(***************************************************************************)
\* The shapes that declare colours and stand in no container.
ColouredFragments == {DarkBlueRect, SkyBlueRect, PaleBluePath, StyledCircle}

\* The documents of such shapes only: they differ in which colour tokens
\* they declare and in the order the tokens appear, and in nothing else.
ColouredDocuments ==
  UNION {{Concat(parts) : parts \in [1..n -> ColouredFragments]} : n \in 1..MaxParts}
    \cup BlueDocuments

\* The colour tokens of each such document, as a set, and its colors list.
TokensAndColors ==
  [d \in ColouredDocuments |->
     [tokens |-> NamesOf(ColorStrings(d)),
      colors |-> extractColorsFromSvg(d).colors]]

\* Every document of coloured shapes with these tokens has these colors.
SameTokensSameColors(tokens, colors) ==
  \A t \in ColouredDocuments :
    TokensAndColors[t].tokens = tokens => TokensAndColors[t].colors = colors

\* C27: two documents that declare the same set of colour tokens in another
\* order of appearance, with the same shapes and containers, have the same
\* colors list.
ColorsAreDiscoveryOrderFree ==
  (pc = "extracted" /\ svgContent \in ColouredDocuments) =>
    SameTokensSameColors(NamesOf(ColorStrings(svgContent)), extracted.colors)

\* Two shapes found in the order light blue, blue, and their document with
\* the shapes exchanged.
ExchangedShapesWitness ==
  /\ pc = "extracted"
  /\ svgContent = SkyBlueRect \o DarkBlueRect
  /\ ClassifiedOfDocument = <<"light blue", "blue">>
  /\ extracted.colors = <<"blue", "light blue">>
  /\ TokensAndColors[DarkBlueRect \o SkyBlueRect].tokens = NamesOf(ColorStrings(svgContent))
  /\ ColorStrings(DarkBlueRect \o SkyBlueRect) # ColorStrings(svgContent)

(***************************************************************************)
(* Claims about the statistics                                             *)
(***************************************************************************)
\* The frequency the report shows for name: no line means none.
Reported(name) ==
  IF name \in DOMAIN printed.colorCounts THEN printed.colorCounts[name] ELSE 0

\* The records of the artifact whose colors list holds name.
RecordsWith(name) ==
  {k \in DOMAIN outputJson.content : Contains(outputJson.content[k].colors, name)}

\* C28: once the batch is over, the frequency reported for each canonical
\* name is the number of records of the artifact whose colors holds the
\* name, and the number of flags reported as processed is the number of
\* records of the artifact.
StatisticsMatchArtifact ==
  pc = "done" =>
    /\ printed.processed = Cardinality(DOMAIN outputJson.content)
    /\ \A name \in DOMAIN printed.colorCounts :
         \E n \in 1..Len(CanonicalNames) : name = CanonicalNames[n]
    /\ \A n \in 1..Len(CanonicalNames) :
         Reported(CanonicalNames[n]) = Cardinality(RecordsWith(CanonicalNames[n]))

\* Three flags: blue, light blue and white in two of them, black in one.
ThreeFlagsReportedWitness ==
  /\ pc = "done"
  /\ svgFiles = <<FlagFile("b", "r"), FlagFile("j", "p"), FlagFile("z", "a")>>
  /\ flagsDir[FlagFile("b", "r")].text = DarkBlueRect \o PaleBluePath
  /\ flagsDir[FlagFile("j", "p")].text = BarePath
  /\ flagsDir[FlagFile("z", "a")].text = DarkBlueRect \o PaleBluePath
  /\ printed.processed = 3
  /\ printed.colorCounts =
       [name \in {"white", "blue", "light blue", "black"} |->
          IF name = "black" THEN 1 ELSE 2]

(***************************************************************************)
(* Claims about the counts of a record                                     *)
(***************************************************************************)
\* The counts of the record main builds from what the extraction returned.
CountsAreBounded(record, ex) ==
  /\ record.colors = ex.colors
  /\ record.rawColorCount = ex.rawColorCount
  /\ record.colorCount = Len(record.colors)
  /\ record.colorCount <= record.rawColorCount + 2
  /\ ex.rawBlueCount <= ex.rawColorCount
  /\ ex.rawBlueCount >= 0

\* The record main stores for a file of the text extracted.
RecordOfExtracted == Merged(EmptyMap, FlagFile("u", "s"), extracted)[<<"U", "S">>]

\* C30: for every document, colorCount is the length of colors, colorCount
\* is at most rawColorCount + 2 (one name for each raw colour, the inferred
\* "black" and the "light blue" of the blue exception), and rawBlueCount is
\* at most rawColorCount.
RecordCountsAreConsistent ==
  pc = "extracted" => CountsAreBounded(RecordOfExtracted, extracted)

\* Two raw colours, both blue-ish, and four names: the bound is met.
FourNamesTwoRawWitness ==
  /\ pc = "extracted"
  /\ svgContent = BarePath \o DarkBlueRect \o PaleBluePath
  /\ extracted.rawBlueCount = 2
  /\ RecordOfExtracted =
       [colors |-> <<"black", "white", "blue", "light blue">>, colorCount |-> 4,
        rawColorCount |-> 2]

(***************************************************************************)
(* Claims about the data loader                                            *)
(***************************************************************************)
\* The order of the scripts: the base data, the Wikipedia parsers, the flag
\* colours, the web sync.
ExecutionOrder ==
  <<"parse-wikidata.js", "parse-wikipedia-land-borders.js",
    "parse-wikipedia-flags.js", "parse-wikipedia-island-countries.js",
    "parse-wikipedia-coastline-length.js", "parse-wikipedia-olympic-medals.js",
    "update-flag-colors.js", "sync-web-data.js">>

\* The script belongs to the run the flags ask for.
IsSelected(script) ==
  CASE script = "parse-wikidata.js" -> "--wikipedia-only" \notin args
    [] script = "sync-web-data.js" -> TRUE
    [] OTHER -> "--wikidata-only" \notin args

\* The scripts launched are the first of the selected ones, in their order.
LaunchedInOrder ==
  LET planned == SelectSeq(ExecutionOrder, IsSelected)
  IN /\ Len(launched) <= Len(planned)
     /\ launched = SubSeq(planned, 1, Len(launched))

\* Every script but the last launched has closed with code 0.
EarlierScriptsExitedZero ==
  /\ Len(exits) <= Len(launched)
  /\ Len(launched) - 1 <= Len(exits)
  /\ \A i \in 1..(Len(launched) - 1) : exits[i] = 0

\* A script has closed with another code than 0 or could not be started.
SomeScriptFailed ==
  \/ \E i \in 1..Len(exits) : exits[i] # 0
  \/ errorMessage.how = "Failed to start"

\* The data loader has exited with code 1 and has no child.
LoaderExitedOne == pc = "exited" /\ exitCode = 1 /\ children = {}

\* C29: the data loader runs its scripts one at a time in the fixed order; a
\* script is launched only when the one before has closed with code 0; once
\* a script closes with another code or fails to start, the loader exits
\* with code 1 and launches nothing more.
LoaderIsSequentialAndStopsOnFailure ==
  /\ [](/\ LaunchedInOrder
        /\ Cardinality(children) <= 1
        /\ EarlierScriptsExitedZero
        /\ SomeScriptFailed => LoaderExitedOne)
  /\ [][exitCode # NoExitCode => launched' = launched]_vars

\* The third script of a full run closes with code 2.
ThirdScriptFailsWitness ==
  /\ pc = "exited"
  /\ args = {}
  /\ launched = SubSeq(ExecutionOrder, 1, 3)
  /\ exits = <<0, 0, 2>>
  /\ errorMessage = [failed |-> "Flag Properties", how |-> "failed with exit code",
                     code |-> 2]
  /\ exitCode = 1

=============================================================================
